---- MODULE Spec2Model ----
(***************************************************************************)
(* Block optimizer of Pixel-Plex-Optimizer (src/app/welcome/optimize.tsx): *)
(* the catalog expander, the beam-pruned DP of                             *)
(* optimizeBlockIncomeFromDefinitions, its selection, back-reconstruction  *)
(* and forward simulator, and the multi-block driver                       *)
(* optimizeMultipleBlocks.                                                 *)
(*                                                                         *)
(* Conventions.  An optional JSON field is a sequence: <<>> when absent,   *)
(* <<x>> when present.  A storageCapacity value (number | ResourceCost) is *)
(* a record with the flag obj.  A ResourceCost is a record over the four   *)
(* axes, a missing axis reading as 0 (the code reads every axis with       *)
(* "|| 0").  A non-integer number is an exact fraction <<num, den>>,       *)
(* den > 0.  A Map is the sequence of its entries in insertion order.      *)
(***************************************************************************)
EXTENDS Integers, Sequences, FiniteSets, TLC

\* ------------------------------------------------------------------------
\* Bounds of the model
\* ------------------------------------------------------------------------
MaxC == 4

MaxBeam == 2

MaxBlocks == 3

\* ------------------------------------------------------------------------
\* OPTIMIZER_CONFIG
\* ------------------------------------------------------------------------
DUPLICATE_PENALTY_THRESHOLD == 2

\* DUPLICATE_PENALTY_RATE = 0.1, SPACE_EFFICIENCY_BONUS = 0.1 and
\* MIN_STAFFING_RATIO = 0.9 as fractions
DUPLICATE_PENALTY_RATE == <<1, 10>>

SPACE_EFFICIENCY_BONUS == <<1, 10>>

MIN_STAFFING_RATIO == <<9, 10>>

STORAGE_PENALTY == 0

MAX_RESIDENTS == 1000

MAX_RESOURCE_UPPER == 100000

DEFAULT_BEAM_WIDTH == 400

DEFAULT_BASE_RESOURCES == [money |-> 1000, wood |-> 100, cement |-> 100, steel |-> 100]

\* potentialAvgIncomePerWorker when no business capacity is placed
DEFAULT_AVG_INCOME_PER_WORKER == 15

\* ------------------------------------------------------------------------
\* Numbers
\* ------------------------------------------------------------------------
Max(a, b) == IF a >= b THEN a ELSE b

Min(a, b) == IF a <= b THEN a ELSE b

RECURSIVE GCD(_, _)
GCD(a, b) == IF b = 0 THEN a ELSE GCD(b, a % b)

Abs(a) == IF a < 0 THEN -a ELSE a

\* the fraction n/d (d > 0) in lowest terms
Frac(n, d) == LET g == GCD(Abs(n), d) IN <<n \div g, d \div g>>

RAdd(a, b) == Frac(a[1] * b[2] + b[1] * a[2], a[2] * b[2])

RSub(a, b) == Frac(a[1] * b[2] - b[1] * a[2], a[2] * b[2])

RMul(a, b) == Frac(a[1] * b[1], a[2] * b[2])

RInt(n) == <<n, 1>>

RLess(a, b) == a[1] * b[2] < b[1] * a[2]

RMax(a, b) == IF RLess(a, b) THEN b ELSE a

\* Math.round: the nearest integer, a tie going up
MathRound(a) == (2 * a[1] + a[2]) \div (2 * a[2])

\* Math.ceil
MathCeil(a) == -((-a[1]) \div a[2])

RECURSIVE SumSeq(_)
SumSeq(s) == IF s = <<>> THEN 0 ELSE Head(s) + SumSeq(Tail(s))

RECURSIVE Pow2(_)
Pow2(n) == IF n = 0 THEN 1 ELSE 2 * Pow2(n - 1)

\* mask | bit, for bit a power of two
BitOr(mask, bit) == IF bit = 0 \/ (mask \div bit) % 2 = 1 THEN mask ELSE mask + bit

\* Array.prototype.sort with comparator cmp: stable; Before(a, b) is cmp(a, b) < 0
StableSort(s, Before(_, _)) ==
    LET n == Len(s)
        Rank(i) == 1 + Cardinality({j \in 1..n : Before(s[j], s[i]) \/ (~Before(s[i], s[j]) /\ j < i)})
    IN [k \in 1..n |-> s[CHOOSE i \in 1..n : Rank(i) = k]]

\* Array.from(new Set(arr)): the distinct elements in order of first appearance
RECURSIVE Distinct(_)
Distinct(s) ==
    IF s = <<>> THEN <<>>
    ELSE LET d == Distinct(SubSeq(s, 1, Len(s) - 1))
         IN IF \E i \in 1..Len(d) : d[i] = s[Len(s)] THEN d ELSE Append(d, s[Len(s)])

\* indexOf, 0 when absent (the code's lookups yield undefined)
IndexOf(s, x) == IF \E i \in 1..Len(s) : s[i] = x THEN CHOOSE i \in 1..Len(s) : s[i] = x /\ \A j \in 1..(i - 1) : s[j] # x ELSE 0

\* ------------------------------------------------------------------------
\* ResourceCost and storageCapacity values
\* ------------------------------------------------------------------------
Axes == {"money", "wood", "cement", "steel"}

RC(m, w, c, s) == [money |-> m, wood |-> w, cement |-> c, steel |-> s]

ZeroRC == RC(0, 0, 0, 0)

NumStorage(n) == [obj |-> FALSE, num |-> n, rc |-> ZeroRC]

ObjStorage(rc) == [obj |-> TRUE, num |-> 0, rc |-> rc]

\* x || 0, x || 1 and truthiness of an optional number
OrZero(o) == IF o = <<>> THEN 0 ELSE o[1]

OrOne(o) == IF o = <<>> \/ o[1] = 0 THEN 1 ELSE o[1]

Truthy(o) == o # <<>> /\ o[1] # 0

\* ------------------------------------------------------------------------
\* BuildingDefinition, BuildingUpgrade
\* ------------------------------------------------------------------------
BuildingUpgrade(level) ==
    [level |-> level, income |-> <<>>, additionalIncome |-> <<>>, employees |-> <<>>,
     peopleCapacity |-> <<>>, storageCapacity |-> <<>>, capacity |-> <<>>,
     mandatory |-> FALSE, cost |-> <<>>, prefers |-> <<>>]

BuildingDefinition(type, name) ==
    [type |-> type, name |-> name, baseIncome |-> <<>>, size |-> <<>>, employees |-> <<>>,
     peopleCapacity |-> <<>>, storageCapacity |-> <<>>, capacity |-> <<>>,
     mandatory |-> FALSE, baseCost |-> <<>>, prefers |-> <<>>, upgrades |-> <<>>]

\* workerType of a definition or an upgrade, "none" for null
WorkerTypeOf(x, fallback) ==
    IF Truthy(x.employees) THEN "employees"
    ELSE IF Truthy(x.peopleCapacity) THEN "residents"
    ELSE fallback

isStorageBuilding(v) == v.storageCapacity.obj /\ v.workerType = "none"

\* The variants pushed for the upgrades of one definition, in sorted order;
\* acc is accumulatedIncome and workers is currentWorkers before ups[1].
RECURSIVE UpgradeVariants(_, _, _, _, _)
UpgradeVariants(d, base, ups, acc, workers) ==
    IF ups = <<>> THEN <<>>
    ELSE LET up == Head(ups)
             accumulatedIncome == IF up.income # <<>> THEN up.income[1] ELSE acc + OrZero(up.additionalIncome)
             w1 == IF up.employees # <<>> THEN up.employees[1] ELSE workers
             currentWorkers == IF up.peopleCapacity # <<>> THEN up.peopleCapacity[1] ELSE w1
             s1 == IF up.storageCapacity # <<>> /\ ~up.storageCapacity[1].obj THEN up.storageCapacity[1] ELSE base.storageCapacity
             currentStorage == IF up.capacity # <<>> /\ ~up.capacity[1].obj THEN up.capacity[1] ELSE s1
             v == [id |-> <<d.type, d.name, up.level>>,
                   type |-> d.type,
                   name |-> d.name,
                   level |-> up.level,
                   size |-> base.size,
                   income |-> accumulatedIncome,
                   capacity |-> currentWorkers,
                   storageCapacity |-> currentStorage,
                   mandatory |-> (up.mandatory \/ d.mandatory),
                   costs |-> IF up.cost # <<>> THEN up.cost[1] ELSE base.costs,
                   workerType |-> WorkerTypeOf(up, WorkerTypeOf(d, "none")),
                   prefers |-> IF up.prefers # <<>> THEN up.prefers[1] ELSE base.prefers]
         IN <<v>> \o UpgradeVariants(d, base, Tail(ups), accumulatedIncome, currentWorkers)

UpgradeBefore(a, b) == a.level < b.level

\* The variants of one building definition: level 1, then one per upgrade
DefinitionVariants(d) ==
    LET baseWorkers == IF d.employees # <<>> THEN d.employees[1] ELSE OrZero(d.peopleCapacity)
        baseStorage == IF d.storageCapacity # <<>> THEN d.storageCapacity[1]
                       ELSE IF d.capacity # <<>> THEN d.capacity[1] ELSE NumStorage(0)
        base == [id |-> <<d.type, d.name, 1>>,
                 type |-> d.type,
                 name |-> d.name,
                 level |-> 1,
                 size |-> OrOne(d.size),
                 income |-> OrZero(d.baseIncome),
                 capacity |-> baseWorkers,
                 storageCapacity |-> baseStorage,
                 mandatory |-> d.mandatory,
                 costs |-> IF d.baseCost # <<>> THEN d.baseCost[1] ELSE ZeroRC,
                 workerType |-> WorkerTypeOf(d, "none"),
                 prefers |-> IF d.prefers # <<>> THEN d.prefers[1] ELSE <<>>]
    IN <<base>> \o UpgradeVariants(d, base, StableSort(d.upgrades, UpgradeBefore), base.income, baseWorkers)

\* defs is the sequence of the definitions of defs.buildingTypes in
\* Object.entries order, the definitions of one type being adjacent
RECURSIVE buildVariantsFromDefinitions(_)
buildVariantsFromDefinitions(defs) ==
    IF defs = <<>> THEN <<>>
    ELSE DefinitionVariants(Head(defs)) \o buildVariantsFromDefinitions(Tail(defs))

\* ------------------------------------------------------------------------
\* optimizeBlockIncomeFromDefinitions: the values computed before the loop
\* ------------------------------------------------------------------------
NoOpts == [debug |-> FALSE, beamWidth |-> <<>>, startingResources |-> <<>>]

MandatoryMisc(v) == v.type = "misc" /\ v.mandatory

IsBusiness(v) == v.workerType = "employees"

IsHouse(v) == v.workerType = "residents"

NamesOf(vs) == [i \in 1..Len(vs) |-> vs[i].name]

\* Math.ceil(capacity * max over vs of per(v) / Math.max(1, v.size)), the
\* maximum starting at 0; the ceiling of the largest product is the largest
\* ceiling
MaxPerSize(capacity, vs, axis) ==
    LET Ceil(i) == MathCeil(<<capacity * (IF axis = "people" THEN vs[i].capacity ELSE vs[i].storageCapacity.rc[axis]), Max(1, vs[i].size)>>)
        RECURSIVE Go(_)
        Go(i) == IF i = 0 THEN 0 ELSE Max(Go(i - 1), Ceil(i))
    IN Go(Len(vs))

SolveContext(defs, sizeLimit, opts) ==
    LET variants == buildVariantsFromDefinitions(defs)
        capacity == Max(0, sizeLimit)
        miscNames == Distinct(NamesOf(SelectSeq(variants, MandatoryMisc)))
        businessNames == Distinct(NamesOf(SelectSeq(variants, IsBusiness)))
        baseResources == IF opts.startingResources # <<>> THEN opts.startingResources[1] ELSE DEFAULT_BASE_RESOURCES
        houseVariants == SelectSeq(variants, IsHouse)
        storageVariants == SelectSeq(variants, isStorageBuilding)
    IN [variants |-> variants,
        capacity |-> capacity,
        debug |-> opts.debug,
        miscNames |-> miscNames,
        requiredMask |-> IF Len(miscNames) > 0 THEN Pow2(Len(miscNames)) - 1 ELSE 0,
        businessNames |-> businessNames,
        nBusinesses |-> Len(businessNames),
        maxResidents |-> Min(MAX_RESIDENTS, MaxPerSize(capacity, houseVariants, "people")),
        maxResourceUpper |-> [a \in Axes |-> Min(MAX_RESOURCE_UPPER, baseResources[a] + MaxPerSize(capacity, storageVariants, a))],
        baseResources |-> baseResources,
        BEAM_WIDTH |-> IF opts.beamWidth # <<>> THEN opts.beamWidth[1] ELSE DEFAULT_BEAM_WIDTH]

Zeros(n) == [i \in 1..n |-> 0]

\* A state key `r:money:wood:cement:steel:mask:counts`; key.split(":")[k]
\* is MakeKey(...)[k + 1]
MakeKey(r, money, wood, cement, steel, mask, counts) == <<r, money, wood, cement, steel, mask, counts>>

initialNode(ctx) ==
    [prevKey |-> <<>>,
     prevW |-> -1,
     variantIndex |-> -1,
     incomeNeutral |-> 0,
     houseBaseIncome |-> 0,
     totalHouseCapacity |-> 0,
     businessIncomeBaseArr |-> Zeros(ctx.nBusinesses),
     businessCapacityArr |-> Zeros(ctx.nBusinesses),
     countsArr |-> Zeros(ctx.nBusinesses),
     totalStorage |-> 0,
     total |-> 0,
     preferenceCapacity |-> Zeros(ctx.nBusinesses)]

initialKey(ctx) ==
    MakeKey(0, ctx.baseResources.money, ctx.baseResources.wood, ctx.baseResources.cement, ctx.baseResources.steel, 0, Zeros(ctx.nBusinesses))

\* dpMaps after line 285: bucket w is dpMaps[w + 1]
initialDpMaps(ctx) ==
    [b \in 1..(ctx.capacity + 1) |-> IF b = 1 THEN <<[key |-> initialKey(ctx), node |-> initialNode(ctx)]>> ELSE <<>>]

\* ------------------------------------------------------------------------
\* One DP transition: state (key, node) of bucket w, variant i (1-based)
\* ------------------------------------------------------------------------
\* penaltyMultiplier = Math.max(0, 1 - duplicatePenalty) for cnt placements
PenaltyMultiplier(cnt) ==
    LET duplicatePenalty == IF cnt > DUPLICATE_PENALTY_THRESHOLD
                            THEN RMul(DUPLICATE_PENALTY_RATE, RInt(cnt - DUPLICATE_PENALTY_THRESHOLD))
                            ELSE RInt(0)
    IN RMax(RInt(0), RSub(RInt(1), duplicatePenalty))

\* lines 337-349: the resource threshold of a non-storage variant
ResourceFeasible(v, key) ==
    isStorageBuilding(v)
    \/ ~(key[2] < v.costs.money \/ key[3] < v.costs.wood \/ key[4] < v.costs.cement \/ key[5] < v.costs.steel)

\* a prefeasibility test that looks at the staffing ratio only
StaffingFeasibleRatioOnly(ctx, v, node) ==
    IF v.workerType = "employees" /\ ~v.mandatory
    THEN LET newBusinessCapacity == SumSeq(node.businessCapacityArr) + v.capacity
         IN ~(newBusinessCapacity > 0
              /\ RLess(<<node.totalHouseCapacity, Max(1, newBusinessCapacity)>>, MIN_STAFFING_RATIO))
    ELSE TRUE

\* lines 351-362: staffing prefeasibility of a non-mandatory business
StaffingFeasible(ctx, v, node) ==
    IF v.workerType = "employees" /\ ~v.mandatory
    THEN LET newBusinessCapacity == SumSeq(node.businessCapacityArr) + v.capacity
             currentHouseCapacity == node.totalHouseCapacity
             bi == IndexOf(ctx.businessNames, v.name)
             availableForThisBiz == IF bi > 0 THEN node.preferenceCapacity[bi] ELSE 0
             currentlyUsedForThisBiz == IF bi > 0 THEN node.businessCapacityArr[bi] ELSE 0
             wouldHaveStaffing == availableForThisBiz >= currentlyUsedForThisBiz + v.capacity
         IN ~(newBusinessCapacity > 0
              /\ (RLess(<<currentHouseCapacity, Max(1, newBusinessCapacity)>>, MIN_STAFFING_RATIO) \/ ~wouldHaveStaffing))
    ELSE TRUE

\* lines 364-380: balances after the variant, clamped to [0, maxResourceUpper]
\* the update without the floor at 0
NewResourcesUnfloored(ctx, v, key) ==
    LET cur == RC(key[2], key[3], key[4], key[5])
        add == IF isStorageBuilding(v) THEN v.storageCapacity.rc ELSE ZeroRC
    IN [a \in Axes |-> Min(ctx.maxResourceUpper[a], cur[a] + add[a])]

\* an update that also takes the costs of the variant off the balances
NewResourcesSpent(ctx, v, key) ==
    LET cur == RC(key[2], key[3], key[4], key[5])
        add == IF isStorageBuilding(v) THEN v.storageCapacity.rc ELSE ZeroRC
    IN [a \in Axes |-> Max(0, Min(ctx.maxResourceUpper[a], cur[a] + add[a] - v.costs[a]))]

NewResources(ctx, v, key) ==
    LET cur == RC(key[2], key[3], key[4], key[5])
        add == IF isStorageBuilding(v) THEN v.storageCapacity.rc ELSE ZeroRC
    IN [a \in Axes |-> Max(0, Min(ctx.maxResourceUpper[a], cur[a] + add[a]))]

\* a mask bit taken as the index itself, without the shift
WillBeMaskUnshifted(ctx, v) ==
    IF v.type = "misc" /\ IndexOf(ctx.miscNames, v.name) > 0 THEN IndexOf(ctx.miscNames, v.name) - 1 ELSE 0

\* lines 382-386
WillBeMask(ctx, v) ==
    IF v.type = "misc" /\ IndexOf(ctx.miscNames, v.name) > 0 THEN Pow2(IndexOf(ctx.miscNames, v.name) - 1) ELSE 0

\* lines 388-423: the aggregates of the successor
NextAggregates(ctx, v, node) ==
    LET bi == IndexOf(ctx.businessNames, v.name)
        prefersAll == v.prefers = <<>>
        Preferred(b) == \E k \in 1..Len(v.prefers) : v.prefers[k] = ctx.businessNames[b]
        \* a name listed twice in prefers adds the capacity twice
        Times(b) == Cardinality({k \in 1..Len(v.prefers) : v.prefers[k] = ctx.businessNames[b]})
    IN IF v.workerType = "employees"
       THEN [node EXCEPT !.countsArr = IF bi > 0 THEN [@ EXCEPT ![bi] = @ + 1] ELSE @,
                         !.businessIncomeBaseArr = IF bi > 0 THEN [@ EXCEPT ![bi] = @ + v.income] ELSE @,
                         !.businessCapacityArr = IF bi > 0 THEN [@ EXCEPT ![bi] = @ + v.capacity] ELSE @]
       ELSE IF v.workerType = "residents"
       THEN [node EXCEPT !.houseBaseIncome = @ + v.income,
                         !.totalHouseCapacity = @ + v.capacity,
                         !.preferenceCapacity = [b \in 1..ctx.nBusinesses |->
                              IF prefersAll THEN @[b] + v.capacity ELSE @[b] + Times(b) * v.capacity]]
       ELSE [node EXCEPT !.incomeNeutral = @ + v.income]

\* lines 425-438: the staffed businesses, then sorted by incomePerWorker
\* descending (line 439)
EstimatorItems(ctx, agg) ==
    LET Item(bi) ==
            LET totalCap == agg.businessCapacityArr[bi]
                cnt == agg.countsArr[bi]
            IN [incomePerWorker |-> IF totalCap > 0
                                    THEN RMul(<<agg.businessIncomeBaseArr[bi], Max(1, totalCap)>>, PenaltyMultiplier(cnt))
                                    ELSE RInt(0),
                capacity |-> Min(totalCap, agg.preferenceCapacity[bi]),
                count |-> cnt,
                businessIndex |-> bi]
        Staffed(it) == agg.businessCapacityArr[it.businessIndex] > 0 /\ it.capacity > 0
        Before(a, b) == RLess(b.incomePerWorker, a.incomePerWorker)
    IN StableSort(SelectSeq([bi \in 1..ctx.nBusinesses |-> Item(bi)], Staffed), Before)

\* lines 441-454: the greedy allocation over the sorted items
RECURSIVE Allocate(_, _, _)
Allocate(items, agg, acc) ==
    IF items = <<>> THEN acc
    ELSE LET it == Head(items)
             bi == it.businessIndex
             canStillAllocate == Min(agg.preferenceCapacity[bi] - acc.usedCapacity[bi], it.capacity)
         IN IF canStillAllocate > 0
            THEN Allocate(Tail(items), agg,
                          [usedCapacity |-> [acc.usedCapacity EXCEPT ![bi] = @ + canStillAllocate],
                           businessIncomeEst |-> RAdd(acc.businessIncomeEst, RMul(RInt(canStillAllocate), it.incomePerWorker)),
                           totalAllocatedEst |-> acc.totalAllocatedEst + canStillAllocate])
            ELSE Allocate(Tail(items), agg, acc)

Estimate(ctx, agg) ==
    Allocate(EstimatorItems(ctx, agg), agg,
             [usedCapacity |-> Zeros(ctx.nBusinesses), businessIncomeEst |-> RInt(0), totalAllocatedEst |-> 0])

\* lines 456-481: the score of the successor placed at size nw
TotalEst(ctx, v, agg, nw) ==
    LET est == Estimate(ctx, agg)
        n == ctx.nBusinesses
        totalUnstaffedCapacity == SumSeq([bi \in 1..n |-> Max(0, agg.businessCapacityArr[bi] - est.usedCapacity[bi])])
        totalBusinessCapacity == SumSeq(agg.businessCapacityArr)
        totalBusinessIncome == SumSeq(agg.businessIncomeBaseArr)
        potentialAvgIncomePerWorker == IF totalBusinessCapacity > 0
                                       THEN <<totalBusinessIncome, Max(1, totalBusinessCapacity)>>
                                       ELSE RInt(DEFAULT_AVG_INCOME_PER_WORKER)
        understaffingPenalty == RMul(RInt(totalUnstaffedCapacity), potentialAvgIncomePerWorker)
        houseEfficiencyEst == IF agg.totalHouseCapacity > 0
                              THEN <<est.totalAllocatedEst, Max(1, agg.totalHouseCapacity)>>
                              ELSE RInt(1)
        scaledHouseIncomeEst == RMul(RInt(agg.houseBaseIncome), houseEfficiencyEst)
        freeSpace == ctx.capacity - nw
        spaceEfficiencyBonus == RMul(RInt(freeSpace), SPACE_EFFICIENCY_BONUS)
        storagePenalty == IF isStorageBuilding(v) /\ ~v.mandatory THEN STORAGE_PENALTY ELSE 0
    IN MathRound(RSub(RAdd(RSub(RAdd(RAdd(est.businessIncomeEst, scaledHouseIncomeEst), RInt(agg.incomeNeutral)),
                                understaffingPenalty),
                           spaceEfficiencyBonus),
                      RInt(storagePenalty)))

\* lines 332-362: the filters of the transition
Feasible(ctx, w, key, node, i) ==
    LET v == ctx.variants[i]
    IN /\ ~(w + v.size > ctx.capacity)
       /\ ResourceFeasible(v, key)
       /\ StaffingFeasible(ctx, v, node)

\* a successor whose back pointer names its own bucket
SuccessorPointingAtItself(ctx, w, key, node, i) ==
    LET v == ctx.variants[i]
        nw == w + v.size
        res == NewResources(ctx, v, key)
        agg == NextAggregates(ctx, v, node)
        est == Estimate(ctx, agg)
        maskNew == BitOr(key[6], WillBeMask(ctx, v))
        nr == Min(ctx.maxResidents, Max(0, agg.totalHouseCapacity - est.totalAllocatedEst))
    IN [nw |-> nw,
        key |-> MakeKey(nr, res.money, res.wood, res.cement, res.steel, maskNew, agg.countsArr),
        node |-> [agg EXCEPT !.prevKey = key,
                             !.prevW = nw,
                             !.variantIndex = i,
                             !.total = TotalEst(ctx, v, agg, nw)]]

\* lines 364-502: the successor entry of a feasible transition
Successor(ctx, w, key, node, i) ==
    LET v == ctx.variants[i]
        nw == w + v.size
        res == NewResources(ctx, v, key)
        agg == NextAggregates(ctx, v, node)
        est == Estimate(ctx, agg)
        maskNew == BitOr(key[6], WillBeMask(ctx, v))
        nr == Min(ctx.maxResidents, Max(0, agg.totalHouseCapacity - est.totalAllocatedEst))
    IN [nw |-> nw,
        key |-> MakeKey(nr, res.money, res.wood, res.cement, res.steel, maskNew, agg.countsArr),
        node |-> [agg EXCEPT !.prevKey = key,
                             !.prevW = w,
                             !.variantIndex = i,
                             !.total = TotalEst(ctx, v, agg, nw)]]

\* Map.get / Map.set on a bucket: a new key is appended, a present key keeps
\* its place
BucketIndex(bucket, key) == IndexOf([k \in 1..Len(bucket) |-> bucket[k].key], key)

\* an insertion that also replaces on an equal score
InsertEntryOnTie(bucket, e) ==
    LET k == BucketIndex(bucket, e.key)
    IN IF k = 0 THEN Append(bucket, [key |-> e.key, node |-> e.node])
       ELSE IF e.node.total >= bucket[k].node.total THEN [bucket EXCEPT ![k] = [key |-> e.key, node |-> e.node]]
       ELSE bucket

\* lines 487-504: insert, or replace when the score is strictly higher
InsertEntry(bucket, e) ==
    LET k == BucketIndex(bucket, e.key)
    IN IF k = 0 THEN Append(bucket, [key |-> e.key, node |-> e.node])
       ELSE IF e.node.total > bucket[k].node.total THEN [bucket EXCEPT ![k] = [key |-> e.key, node |-> e.node]]
       ELSE bucket

Inserts(bucket, e) == BucketIndex(bucket, e.key) = 0 \/ e.node.total > bucket[BucketIndex(bucket, e.key)].node.total

\* lines 290-306: keep the first beam entries of the bucket sorted by
\* total + 1e9 * [mask = requiredMask] descending
PruneScore(ctx, e) == e.node.total + (IF ctx.requiredMask # 0 /\ e.key[6] = ctx.requiredMask THEN 1000000000 ELSE 0)

\* a pruner that keeps one entry more than the beam
pruneMapToBeamOneMore(ctx, m, beam) ==
    IF Len(m) <= beam + 1 THEN m
    ELSE LET Before(a, b) == PruneScore(ctx, a) > PruneScore(ctx, b)
             arr == StableSort(m, Before)
             toKeep == {arr[k].key : k \in 1..Max(0, beam + 1)}
             Kept(e) == e.key \in toKeep
         IN SelectSeq(m, Kept)

\* a pruner that keeps every state of a debug run
pruneMapToBeamUnlessDebug(ctx, m, beam) ==
    IF Len(m) <= beam \/ ctx.debug THEN m
    ELSE LET Before(a, b) == PruneScore(ctx, a) > PruneScore(ctx, b)
             arr == StableSort(m, Before)
             toKeep == {arr[k].key : k \in 1..Max(0, beam)}
             Kept(e) == e.key \in toKeep
         IN SelectSeq(m, Kept)

pruneMapToBeam(ctx, m, beam) ==
    IF Len(m) <= beam THEN m
    ELSE LET Before(a, b) == PruneScore(ctx, a) > PruneScore(ctx, b)
             arr == StableSort(m, Before)
             toKeep == {arr[k].key : k \in 1..Max(0, beam)}
             Kept(e) == e.key \in toKeep
         IN SelectSeq(m, Kept)

\* ------------------------------------------------------------------------
\* Selection (lines 513-562) and back-reconstruction (lines 564-582)
\* ------------------------------------------------------------------------
\* the entries of all buckets in the order the selection loop visits them
RECURSIVE EntriesUpTo(_, _)
EntriesUpTo(dp, b) ==
    IF b = 0 THEN <<>>
    ELSE EntriesUpTo(dp, b - 1) \o [k \in 1..Len(dp[b]) |-> [w |-> b - 1, key |-> dp[b][k].key, node |-> dp[b][k].node]]

AllEntries(dp) == EntriesUpTo(dp, Len(dp))

\* parts[1] and parts[2] of the key, as the selection loop reads them
SelCapAvail(key) == key[2]

SelMaskVal(key) == key[3]

\* a choice of the last entry visited, whatever its total
LastVisited(es) == IF es = <<>> THEN <<>> ELSE <<es[Len(es)]>>

\* the first entry of es with the largest total, <<>> when es is empty
FirstBest(es) ==
    IF es = <<>> THEN <<>>
    ELSE LET IsBest(k) == (\A j \in 1..Len(es) : es[j].node.total <= es[k].node.total)
                              /\ (\A j \in 1..(k - 1) : es[j].node.total < es[k].node.total)
         IN <<es[CHOOSE k \in 1..Len(es) : IsBest(k)]>>

\* [found, w, key]: (bestW, bestKey) after line 562; ret is FALSE where the
\* code returns null at line 556
Selection(ctx, dp) ==
    LET Considered(e) == ~(SelCapAvail(e.key) < 0)
        WithAll(e) == Considered(e) /\ ctx.requiredMask # 0 /\ SelMaskVal(e.key) = ctx.requiredMask
        best == FirstBest(SelectSeq(AllEntries(dp), Considered))
        bestWithAll == FirstBest(SelectSeq(AllEntries(dp), WithAll))
    IN IF ctx.requiredMask # 0
       THEN IF bestWithAll = <<>> THEN [ret |-> FALSE, bestW |-> -1, bestKey |-> <<>>]
            ELSE [ret |-> TRUE, bestW |-> bestWithAll[1].w, bestKey |-> bestWithAll[1].key]
       ELSE IF best = <<>> THEN [ret |-> TRUE, bestW |-> 0, bestKey |-> <<>>]
            ELSE [ret |-> TRUE, bestW |-> best[1].w, bestKey |-> best[1].key]

\* the variant indices emitted by the walk from (curW, curKey), last placed
\* first
RECURSIVE BackWalk(_, _, _)
BackWalk(dp, curW, curKey) ==
    IF ~(curW > 0 /\ curKey # <<>>) THEN <<>>
    ELSE LET k == BucketIndex(dp[curW + 1], curKey)
         IN IF k = 0 THEN <<>>
            ELSE LET node == dp[curW + 1][k].node
                 IN (IF node.variantIndex >= 1 THEN <<node.variantIndex>> ELSE <<>>)
                    \o BackWalk(dp, node.prevW, node.prevKey)

Reverse(s) == [k \in 1..Len(s) |-> s[Len(s) + 1 - k]]

\* chosenSequence after line 612: the variants in placement order
ChosenSequence(ctx, dp, sel) ==
    LET idx == Reverse(BackWalk(dp, sel.bestW, sel.bestKey))
    IN [k \in 1..Len(idx) |-> ctx.variants[idx[k]]]

\* ------------------------------------------------------------------------
\* simulateSequence (lines 614-688)
\* ------------------------------------------------------------------------
\* the key of a house's resident pool: the set of preferred names, or "*"
PrefKey(v) == IF v.prefers # <<>> THEN {v.prefers[k] : k \in 1..Len(v.prefers)} ELSE {"*"}

\* Map.set(key, (Map.get(key) || 0) + n) on a sequence of [key, val]
MapAdd(m, key, n) ==
    LET k == IndexOf([j \in 1..Len(m) |-> m[j].key], key)
    IN IF k = 0 THEN Append(m, [key |-> key, val |-> n]) ELSE [m EXCEPT ![k].val = @ + n]

MapGet(m, key) ==
    LET k == IndexOf([j \in 1..Len(m) |-> m[j].key], key)
    IN IF k = 0 THEN 0 ELSE m[k].val

\* pass 1 (lines 626-641)
RECURSIVE Inventory(_, _)
Inventory(seq, acc) ==
    IF seq = <<>> THEN acc
    ELSE LET v == Head(seq)
         IN Inventory(Tail(seq),
                IF v.workerType = "residents"
                THEN [acc EXCEPT !.totalHouseCapacity = @ + v.capacity,
                                 !.houseCapacityByName = MapAdd(@, v.name, v.capacity),
                                 !.houseBaseIncome = @ + v.income,
                                 !.residentPools = MapAdd(@, PrefKey(v), v.capacity)]
                ELSE IF v.workerType = "employees"
                THEN [acc EXCEPT !.businessCapacityByName = MapAdd(@, v.name, v.capacity)]
                ELSE [acc EXCEPT !.neutralIncome = @ + v.income])

\* lines 648-660: one business draws from the pools in insertion order;
\* st = [pools, allocated]
\* a test that lets every pool work for every business
canWorkAnywhere(prefKey, name) == TRUE

\* line 651
canWork(prefKey, name) == prefKey = {"*"} \/ name \in prefKey

RECURSIVE DrawPools(_, _, _, _)
DrawPools(v, st, k, stopped) ==
    IF k > Len(st.pools) \/ stopped THEN st
    ELSE LET available == st.pools[k].val
         IN IF available <= 0 \/ ~canWork(st.pools[k].key, v.name) THEN DrawPools(v, st, k + 1, FALSE)
            ELSE LET needed == v.capacity - st.allocated
                     toAllocate == Min(available, needed)
                     st2 == [pools |-> [st.pools EXCEPT ![k].val = available - toAllocate],
                             allocated |-> st.allocated + toAllocate]
                 IN DrawPools(v, st2, k + 1, st2.allocated >= v.capacity)

\* pass 2 (lines 643-670), rest being the part of seq still to visit
RECURSIVE Staffing(_, _, _)
Staffing(seq, rest, acc) ==
    IF rest = <<>> THEN acc
    ELSE LET v == Head(rest)
         IN IF v.workerType # "employees" THEN Staffing(seq, Tail(rest), acc)
            ELSE LET st == DrawPools(v, [pools |-> acc.residentPools, allocated |-> 0], 1, FALSE)
                     efficiency == IF v.capacity > 0 THEN <<st.allocated, Max(1, v.capacity)>> ELSE RInt(1)
                     SameBusiness(x) == x.name = v.name /\ x.workerType = "employees"
                     count == Len(SelectSeq(seq, SameBusiness))
                 IN Staffing(seq, Tail(rest),
                        [acc EXCEPT !.residentPools = st.pools,
                                    !.businessAllocatedByName = MapAdd(@, v.name, st.allocated),
                                    !.businessIncome = RAdd(@, RMul(RMul(RInt(v.income), efficiency), PenaltyMultiplier(count))),
                                    !.totalAllocatedEmployees = @ + st.allocated])

\* a house efficiency computed without the guard for a zero capacity
houseEfficiencyUnguarded(totalHouseCapacity, totalAllocatedEmployees) ==
    <<totalAllocatedEmployees, Max(1, totalHouseCapacity)>>

\* line 672
houseEfficiency(totalHouseCapacity, totalAllocatedEmployees) ==
    IF totalHouseCapacity > 0 THEN <<totalAllocatedEmployees, Max(1, totalHouseCapacity)>> ELSE RInt(1)

simulateSequence(seq) ==
    LET m == Staffing(seq, seq,
                 Inventory(seq, [residentPools |-> <<>>, totalHouseCapacity |-> 0, totalAllocatedEmployees |-> 0,
                                 businessIncome |-> RInt(0), houseBaseIncome |-> 0, neutralIncome |-> 0,
                                 businessCapacityByName |-> <<>>, businessAllocatedByName |-> <<>>,
                                 houseCapacityByName |-> <<>>]))
        scaledHouseIncome == RMul(RInt(m.houseBaseIncome), houseEfficiency(m.totalHouseCapacity, m.totalAllocatedEmployees))
    IN [totalIncome |-> MathRound(RAdd(RAdd(m.businessIncome, scaledHouseIncome), RInt(m.neutralIncome))),
        businessIncome |-> m.businessIncome,
        scaledHouseIncome |-> scaledHouseIncome,
        neutralIncome |-> m.neutralIncome,
        totalStorage |-> 0,
        totalHouseCapacity |-> m.totalHouseCapacity,
        totalAllocatedEmployees |-> m.totalAllocatedEmployees,
        businessCapacityByName |-> m.businessCapacityByName,
        businessAllocatedByName |-> m.businessAllocatedByName,
        houseCapacityByName |-> m.houseCapacityByName,
        residentPools |-> m.residentPools]

\* ------------------------------------------------------------------------
\* The result of a single-block solve (lines 690-748)
\* ------------------------------------------------------------------------
Null == [kind |-> "null"]

NA == -1

\* variants.find((x) => x.name === name && x.level === level)
FindVariant(variants, name, level) ==
    variants[CHOOSE k \in 1..Len(variants) :
                 /\ variants[k].name = name /\ variants[k].level = level
                 /\ \A j \in 1..(k - 1) : ~(variants[j].name = name /\ variants[j].level = level)]

\* finalCounts: `${v.name}:lvl${v.level}` -> count, in order of first placement
RECURSIVE FinalCounts(_)
FinalCounts(seq) ==
    IF seq = <<>> THEN <<>>
    ELSE MapAdd(FinalCounts(SubSeq(seq, 1, Len(seq) - 1)), <<seq[Len(seq)].name, seq[Len(seq)].level>>, 1)

CombinationItem(variant, name, level, count) ==
    [name |-> name,
     level |-> level,
     count |-> count,
     size |-> variant.size,
     incomePerBuilding |-> variant.income,
     capacity |-> variant.capacity,
     storageCapacity |-> variant.storageCapacity,
     workerType |-> variant.workerType,
     type |-> variant.type,
     totalIncome |-> variant.income * count,
     totalSize |-> variant.size * count]

combinationFinal(ctx, finalSeq) ==
    LET fc == FinalCounts(finalSeq)
    IN [k \in 1..Len(fc) |->
           CombinationItem(FindVariant(ctx.variants, fc[k].key[1], fc[k].key[2]), fc[k].key[1], fc[k].key[2], fc[k].val)]

MapKeys(m) == {m[k].key : k \in 1..Len(m)}

\* Math.round(eff * 100), the number before "%"
Percent(eff) == MathRound(RMul(eff, RInt(100)))

\* averageEfficiencyByType (lines 720-741): name -> percentage, or NA
averageEfficiencyByType(finalSeq, metrics, combination) ==
    LET businesses == MapKeys(metrics.businessCapacityByName)
        houses == MapKeys(metrics.houseCapacityByName)
        items == {combination[k].name : k \in 1..Len(combination)}
        BusinessEff(name) ==
            LET cap == MapGet(metrics.businessCapacityByName, name)
                allocated == MapGet(metrics.businessAllocatedByName, name)
                SameBusiness(x) == x.name = name /\ x.workerType = "employees"
                count == Len(SelectSeq(finalSeq, SameBusiness))
                duplicatePenalty == IF count > DUPLICATE_PENALTY_THRESHOLD
                                    THEN RMul(DUPLICATE_PENALTY_RATE, RInt(count - DUPLICATE_PENALTY_THRESHOLD))
                                    ELSE RInt(0)
                baseEff == IF cap > 0 THEN <<allocated, Max(1, cap)>> ELSE RInt(1)
            IN Percent(RMax(RInt(0), RSub(baseEff, duplicatePenalty)))
        HouseEff ==
            Percent(IF metrics.totalHouseCapacity > 0
                    THEN <<metrics.totalAllocatedEmployees, Max(1, metrics.totalHouseCapacity)>>
                    ELSE RInt(1))
        ItemEff(name) ==
            LET item == combination[CHOOSE k \in 1..Len(combination) :
                                        combination[k].name = name /\ \A j \in 1..(k - 1) : combination[j].name # name]
            IN IF item.storageCapacity.obj /\ item.workerType = "none" THEN NA ELSE 100
    IN [name \in businesses \cup houses \cup items |->
           IF name \in houses THEN HouseEff
           ELSE IF name \in businesses THEN BusinessEff(name)
           ELSE ItemEff(name)]

\* resultCore, with debugInfo in a debug run (lines 743-747)
ResultRecord(ctx, dp, durationMs, finalSeq, comb, finalMetrics) ==
    [kind |-> "result",
     combination |-> comb,
     totalIncome |-> finalMetrics.totalIncome,
     averageEfficiencyByType |-> averageEfficiencyByType(finalSeq, finalMetrics, comb),
     totalSize |-> SumSeq([k \in 1..Len(comb) |-> comb[k].totalSize]),
     totalStorage |-> finalMetrics.totalStorage,
     debugInfo |-> IF ctx.debug
                   THEN <<[dpStateCounts |-> [b \in 1..Len(dp) |-> Len(dp[b])], durationMs |-> durationMs]>>
                   ELSE <<>>]

ResultOfSequence(ctx, dp, durationMs, finalSeq) ==
    ResultRecord(ctx, dp, durationMs, finalSeq, combinationFinal(ctx, finalSeq), simulateSequence(finalSeq))

ResultOfSelection(ctx, dp, durationMs, sel) ==
    IF ~sel.ret THEN Null ELSE ResultOfSequence(ctx, dp, durationMs, ChosenSequence(ctx, dp, sel))

\* a selection that gives up on the search once the clock has advanced
SolveResultUntilDeadline(ctx, dp, durationMs) ==
    IF durationMs > 0
    THEN ResultOfSelection(ctx, dp, durationMs, [ret |-> TRUE, bestW |-> 0, bestKey |-> <<>>])
    ELSE ResultOfSelection(ctx, dp, durationMs, Selection(ctx, dp))

\* the value returned for the final dpMaps; durationMs is the clock reading
\* of a debug run
SolveResult(ctx, dp, durationMs) == ResultOfSelection(ctx, dp, durationMs, Selection(ctx, dp))

\* ------------------------------------------------------------------------
\* optimizeMultipleBlocks (lines 761-1015)
\* ------------------------------------------------------------------------
\* lines 777-786, 962-972: the storage of the items with object storage
\* a contribution that counts each storage item once
blockStorageContributionOnce(combination) ==
    [a \in Axes |->
        SumSeq([k \in 1..Len(combination) |->
                   IF combination[k].storageCapacity.obj THEN combination[k].storageCapacity.rc[a] ELSE 0])]

blockStorageContribution(combination) ==
    [a \in Axes |->
        SumSeq([k \in 1..Len(combination) |->
                   IF combination[k].storageCapacity.obj
                   THEN combination[k].storageCapacity.rc[a] * combination[k].count
                   ELSE 0])]

AddRC(x, y) == [a \in Axes |-> x[a] + y[a]]

\* line 835: the first variant of bv with the highest level
BestVariant(bv) ==
    IF bv = <<>> THEN <<>>
    ELSE <<bv[CHOOSE k \in 1..Len(bv) : (\A j \in 1..Len(bv) : bv[j].level <= bv[k].level)
                                       /\ (\A j \in 1..(k - 1) : bv[j].level < bv[k].level)]>>

IsMandatoryMisc(d) == d.type = "misc" /\ (d.mandatory \/ \E k \in 1..Len(d.upgrades) : d.upgrades[k].mandatory)

RECURSIVE ReservedVariants(_, _)
ReservedVariants(misc, all) ==
    IF misc = <<>> THEN <<>>
    ELSE LET Mine(v) == v.name = misc[Len(misc)].name /\ v.mandatory
         IN ReservedVariants(SubSeq(misc, 1, Len(misc) - 1), all) \o BestVariant(SelectSeq(all, Mine))

\* lines 826-851: the reserved variant of each mandatory misc building
mandatoryMiscBuildings(defs) == ReservedVariants(SelectSeq(defs, IsMandatoryMisc), buildVariantsFromDefinitions(defs))

SumSizes(m) == SumSeq([k \in 1..Len(m) |-> m[k].size])

SumIncomes(m) == SumSeq([k \in 1..Len(m) |-> m[k].income])

reservedSize(defs) == SumSizes(mandatoryMiscBuildings(defs))

reservedIncome(defs) == SumIncomes(mandatoryMiscBuildings(defs))

\* a copy of defs that keeps the misc flags
modifiedDefsWithFlags(defs) == defs

\* lines 887-897, 904-918: the copy of defs with the misc flags cleared
modifiedDefs(defs) ==
    [k \in 1..Len(defs) |->
        IF defs[k].type = "misc"
        THEN [defs[k] EXCEPT !.mandatory = FALSE,
                             !.upgrades = [u \in 1..Len(@) |-> [@[u] EXCEPT !.mandatory = FALSE]]]
        ELSE defs[k]]

\* line 875
effectiveSizeLimit(defs, numBlocks, sizeLimit, blockIdx) ==
    IF blockIdx = numBlocks - 1 THEN sizeLimit - reservedSize(defs) ELSE sizeLimit

\* lines 931-954: the last block's result with the reserved variants m
\* injected
Inject(blockResult, m) ==
    IF Len(m) > 0
    THEN [blockResult EXCEPT
             !.combination = @ \o [k \in 1..Len(m) |-> CombinationItem(m[k], m[k].name, m[k].level, 1)],
             !.totalIncome = @ + SumIncomes(m),
             !.totalSize = @ + SumSizes(m),
             !.averageEfficiencyByType =
                 [name \in (DOMAIN @) \cup {m[k].name : k \in 1..Len(m)} |->
                     IF name \in DOMAIN @ THEN @[name]
                     ELSE IF m[CHOOSE k \in 1..Len(m) : m[k].name = name /\ \A j \in 1..(k - 1) : m[j].name # name].workerType # "none"
                          THEN 100 ELSE NA]]
    ELSE blockResult

InjectReserved(defs, blockResult) == Inject(blockResult, mandatoryMiscBuildings(defs))

\* lines 974-981
BlockEntry(blockNum, blockResult) ==
    [blockNumber |-> blockNum,
     combination |-> blockResult.combination,
     totalIncome |-> blockResult.totalIncome,
     averageEfficiencyByType |-> blockResult.averageEfficiencyByType,
     totalSize |-> blockResult.totalSize,
     blockStorage |-> blockStorageContribution(blockResult.combination)]

\* lines 788-812: the value returned for numBlocks = 1
\* a one-block value whose aggregate income is taken from the wrong field
OneBlockResultSizeAsIncome(result) ==
    IF result.kind = "null" THEN Null
    ELSE [kind |-> "multi",
          blocks |-> <<BlockEntry(1, result)>>,
          aggregateTotalIncome |-> result.totalSize,
          aggregateTotalStorage |-> AddRC(DEFAULT_BASE_RESOURCES, blockStorageContribution(result.combination)),
          baseStorage |-> DEFAULT_BASE_RESOURCES,
          debugInfo |-> result.debugInfo]

OneBlockResult(result) ==
    IF result.kind = "null" THEN Null
    ELSE [kind |-> "multi",
          blocks |-> <<BlockEntry(1, result)>>,
          aggregateTotalIncome |-> result.totalIncome,
          aggregateTotalStorage |-> AddRC(DEFAULT_BASE_RESOURCES, blockStorageContribution(result.combination)),
          baseStorage |-> DEFAULT_BASE_RESOURCES,
          debugInfo |-> result.debugInfo]

\* lines 1001-1014: the value returned after the block loop
MultiResult(blocks, aggregateIncome, aggregateStorage, debug, numBlocks) ==
    [kind |-> "multi",
     blocks |-> blocks,
     aggregateTotalIncome |-> aggregateIncome,
     aggregateTotalStorage |-> AddRC(DEFAULT_BASE_RESOURCES, aggregateStorage),
     baseStorage |-> DEFAULT_BASE_RESOURCES,
     debugInfo |-> IF debug THEN <<[message |-> numBlocks]>> ELSE <<>>]

\* ------------------------------------------------------------------------
\* Inputs: catalogs, options
\* ------------------------------------------------------------------------
Cottage == [BuildingDefinition("houses", "Cottage") EXCEPT !.baseIncome = <<2>>, !.size = <<2>>, !.peopleCapacity = <<4>>]

Villa == [BuildingDefinition("houses", "Villa") EXCEPT !.baseIncome = <<2>>, !.size = <<2>>, !.peopleCapacity = <<4>>,
                                                      !.prefers = <<(<<"OtherBiz">>)>>]

Shop == [BuildingDefinition("businesses", "Shop") EXCEPT !.baseIncome = <<10>>, !.size = <<2>>, !.employees = <<4>>]

Cafe == [BuildingDefinition("businesses", "Cafe") EXCEPT
            !.baseIncome = <<4>>, !.employees = <<2>>,
            !.upgrades = <<[BuildingUpgrade(3) EXCEPT !.additionalIncome = <<2>>, !.cost = <<RC(1200, 0, 0, 0)>>],
                           [BuildingUpgrade(2) EXCEPT !.income = <<7>>, !.cost = <<RC(1200, 0, 0, 0)>>]>>]

Fountain == [BuildingDefinition("misc", "Fountain") EXCEPT !.size = <<2>>, !.mandatory = TRUE]

Statue == [BuildingDefinition("misc", "Statue") EXCEPT !.size = <<2>>, !.mandatory = TRUE]

Vault == [BuildingDefinition("storage", "Vault") EXCEPT !.baseIncome = <<1>>,
                                                       !.storageCapacity = <<ObjStorage(RC(500, 2, 0, 0))>>]

Park == [BuildingDefinition("decor", "Park") EXCEPT !.baseIncome = <<5>>]

\* a storage building that lowers two balances
Sink == [BuildingDefinition("storage", "Sink") EXCEPT !.baseIncome = <<6>>,
                                                     !.storageCapacity = <<ObjStorage(RC(-600, 0, -150, 0))>>]

\* a decoration that shares its name with the house
DecorCottage == [BuildingDefinition("decor", "Cottage") EXCEPT !.baseIncome = <<3>>]

\* a house whose upgrade sets peopleCapacity to 0
Hut ==
    [BuildingDefinition("houses", "Hut") EXCEPT
        !.baseIncome = <<1>>, !.size = <<1>>, !.peopleCapacity = <<2>>,
        !.upgrades = <<[BuildingUpgrade(2) EXCEPT !.income = <<6>>, !.peopleCapacity = <<0>>]>>]

\* a mandatory misc building with an income
Monument == [BuildingDefinition("misc", "Monument") EXCEPT !.baseIncome = <<12>>, !.size = <<2>>, !.mandatory = TRUE]

\* a decoration with a negative income
Swamp == [BuildingDefinition("decor", "Swamp") EXCEPT !.baseIncome = <<-3>>]

Catalogs ==
    << <<>>,
       <<Park>>,
       <<Cottage, Shop>>,
       <<Villa, Shop>>,
       <<Fountain, Statue>>,
       <<Fountain, Park>>,
       <<Cottage, Cafe, Vault>>,
       <<Fountain, Vault>>,
       <<Cottage, DecorCottage>>,
       <<Sink, Park>>,
       <<Hut, Park>>,
       <<Monument, Park>>,
       <<Swamp>> >>

\* a mandatory misc building and a decoration, each as large as the largest
\* block, the decoration's income above the 1e9 the pruner adds for coverage
Obelisk == [BuildingDefinition("misc", "Obelisk") EXCEPT !.size = <<MaxC>>, !.mandatory = TRUE]

Jackpot == [BuildingDefinition("decor", "Jackpot") EXCEPT !.baseIncome = <<1000000001>>, !.size = <<MaxC>>]

\* a house for ten residents and two businesses that together employ eleven
Flat == [BuildingDefinition("houses", "Flat") EXCEPT !.baseIncome = <<9>>, !.peopleCapacity = <<10>>]

Kiosk == [BuildingDefinition("businesses", "Kiosk") EXCEPT !.baseIncome = <<12>>, !.employees = <<6>>]

Stall == [BuildingDefinition("businesses", "Stall") EXCEPT !.baseIncome = <<5>>, !.employees = <<5>>]

\* a storage building that costs more wood than the base resources hold, and
\* a decoration that needs the wood the storage building adds
Depot == [BuildingDefinition("storage", "Depot") EXCEPT !.baseIncome = <<1>>, !.size = <<2>>,
                                                       !.storageCapacity = <<ObjStorage(RC(0, 100, 0, 0))>>,
                                                       !.baseCost = <<RC(0, 150, 0, 0)>>]

Mill == [BuildingDefinition("decor", "Mill") EXCEPT !.baseIncome = <<8>>, !.baseCost = <<RC(0, 150, 0, 0)>>]

\* a storage building whose upgrades declare a storage capacity, one as an
\* object and one as a number
Silo ==
    [BuildingDefinition("storage", "Silo") EXCEPT
        !.baseIncome = <<1>>, !.size = <<2>>, !.storageCapacity = <<ObjStorage(RC(100, 0, 0, 0))>>,
        !.upgrades = <<[BuildingUpgrade(2) EXCEPT !.additionalIncome = <<1>>, !.storageCapacity = <<ObjStorage(RC(300, 0, 0, 0))>>],
                       [BuildingUpgrade(3) EXCEPT !.additionalIncome = <<1>>, !.capacity = <<NumStorage(7)>>]>>]

\* the catalogs handed to the single-block optimizer only
SingleOnlyCatalogs == << <<Obelisk, Jackpot>>, <<Flat, Kiosk, Stall>>, <<Depot, Mill>>, <<Silo>> >>

\* a caller's startingResources other than the default ones
LowWood == RC(1000, 1, 100, 100)

\* the readings of Date.now() - startTimeMs in a debug run
Durations == {0, 1}

\* ------------------------------------------------------------------------
\* State
\* ------------------------------------------------------------------------
VARIABLES
    entry,          \* the exported function called: "single" or "multi"
    defs,           \* its arguments
    numBlocks,
    sizeLimit,
    opts,
    pc,             \* "call", "dp" (inside a single-block solve), "loop", "done"
    ctx,            \* the running solve: the values computed before its loop
    dpMaps,         \* its buckets
    w,              \* its outer loop index
    si,             \* the position in bucket w of the state being expanded
    vi,             \* the variant index i of the inner loop, plus one
    updatedIndices,
    result,         \* the value the last solve returned to its caller
    blockIdx,       \* the block loop of optimizeMultipleBlocks
    blockResults,
    aggregateIncome,
    aggregateStorageFromBuildings,
    ret,            \* the value returned or thrown by the call
    run,            \* 1 in the first call, 2 in a second call with the same arguments
    first,          \* the first call's function, debug option and returned value
    isLoading,      \* the state of the Welcome component
    resultState,
    error,
    uiPc,           \* the position of runOptimizer: "idle", "fetch", "timer", "running", "threw"
    fetched         \* what the fetch of the catalog resolved to

inputVars == <<entry, defs, numBlocks, sizeLimit, opts>>

solveVars == <<ctx, dpMaps, w, si, vi, updatedIndices, result>>

driverVars == <<blockIdx, blockResults, aggregateIncome, aggregateStorageFromBuildings>>

vars == <<entry, defs, numBlocks, sizeLimit, opts, pc, ctx, dpMaps, w, si, vi, updatedIndices, result,
          blockIdx, blockResults, aggregateIncome, aggregateStorageFromBuildings, ret, run, first,
          isLoading, resultState, error, uiPc, fetched>>

uiVars == <<isLoading, resultState, error, uiPc, fetched>>

\* what no step of a call changes
callVars == <<run, first, uiVars>>

NoCtx == SolveContext(<<>>, 0, NoOpts)

NoRet == [kind |-> "none"]

\* the Welcome component as mounted (lines 41-43 of part_001), no run started
Mounted ==
    /\ isLoading = FALSE
    /\ resultState = Null
    /\ error = Null
    /\ uiPc = "idle"
    /\ fetched = "none"

Init ==
    /\ entry \in {"single", "multi"}
    /\ defs \in {Catalogs[c] : c \in 1..Len(Catalogs)}
                \cup (IF entry = "single" THEN {SingleOnlyCatalogs[c] : c \in 1..Len(SingleOnlyCatalogs)} ELSE {})
    /\ sizeLimit \in 0..MaxC
    /\ numBlocks \in IF entry = "multi" THEN 0..MaxBlocks ELSE {1}
    /\ opts \in {[debug |-> d, beamWidth |-> b, startingResources |-> r] :
                    d \in BOOLEAN, b \in {<<>>} \cup {<<n>> : n \in 1..MaxBeam},
                    r \in IF entry = "single" THEN {<<>>, <<LowWood>>} ELSE {<<>>}}
    /\ pc = "call"
    /\ ctx = NoCtx
    /\ dpMaps = <<>>
    /\ w = 0
    /\ si = 1
    /\ vi = 1
    /\ updatedIndices = {}
    /\ result = NoRet
    /\ blockIdx = 0
    /\ blockResults = <<>>
    /\ aggregateIncome = 0
    /\ aggregateStorageFromBuildings = ZeroRC
    /\ ret = NoRet
    /\ run = 1
    /\ first = [entry |-> "none", debug |-> FALSE, ret |-> NoRet]
    /\ Mounted

\* lines 207-288: a solve is entered
BeginSolve(d, limit, o) ==
    /\ ctx' = SolveContext(d, limit, o)
    /\ dpMaps' = initialDpMaps(SolveContext(d, limit, o))
    /\ w' = 0
    /\ si' = 1
    /\ vi' = 1
    /\ updatedIndices' = {}
    /\ result' = NoRet

\* optimizeBlockIncomeFromDefinitions(defs, sizeLimit, opts) is called
CallSingle ==
    /\ pc = "call"
    /\ entry = "single"
    /\ BeginSolve(defs, sizeLimit, opts)
    /\ pc' = "dp"
    /\ UNCHANGED <<inputVars, driverVars, ret, callVars>>

\* a driver that expands the catalog before it looks at numBlocks
CallMultiInvalidAfterExpansion ==
    /\ pc = "call"
    /\ entry = "multi"
    /\ numBlocks < 1
    /\ ctx' = SolveContext(defs, sizeLimit, opts)
    /\ ret' = [kind |-> "error", message |-> "Number of blocks must be at least 1"]
    /\ pc' = "done"
    /\ UNCHANGED <<inputVars, dpMaps, w, si, vi, updatedIndices, result, driverVars, callVars>>

\* optimizeMultipleBlocks with numBlocks < 1 (lines 762-764)
CallMultiInvalid ==
    /\ pc = "call"
    /\ entry = "multi"
    /\ numBlocks < 1
    /\ ret' = [kind |-> "error", message |-> "Number of blocks must be at least 1"]
    /\ pc' = "done"
    /\ UNCHANGED <<inputVars, solveVars, driverVars, callVars>>

\* optimizeMultipleBlocks with numBlocks = 1 (lines 773-774)
CallMultiOne ==
    /\ pc = "call"
    /\ entry = "multi"
    /\ numBlocks = 1
    /\ BeginSolve(defs, sizeLimit, opts)
    /\ pc' = "dp"
    /\ UNCHANGED <<inputVars, driverVars, ret, callVars>>

\* optimizeMultipleBlocks with numBlocks >= 2 up to the block loop
\* (lines 815-862)
CallMultiMany ==
    /\ pc = "call"
    /\ entry = "multi"
    /\ numBlocks >= 2
    /\ blockIdx' = 0
    /\ blockResults' = <<>>
    /\ aggregateIncome' = 0
    /\ aggregateStorageFromBuildings' = ZeroRC
    /\ pc' = "loop"
    /\ UNCHANGED <<inputVars, solveVars, ret, callVars>>

\* a block loop that starts every block from the base resources
StartBlockFromBase ==
    /\ pc = "loop"
    /\ blockIdx < numBlocks
    /\ BeginSolve(modifiedDefs(defs),
                  effectiveSizeLimit(defs, numBlocks, sizeLimit, blockIdx),
                  [opts EXCEPT !.startingResources = <<DEFAULT_BASE_RESOURCES>>])
    /\ pc' = "dp"
    /\ UNCHANGED <<inputVars, driverVars, ret, callVars>>

\* one iteration of the block loop up to its solve (lines 864-924)
StartBlock ==
    /\ pc = "loop"
    /\ blockIdx < numBlocks
    /\ BeginSolve(modifiedDefs(defs),
                  effectiveSizeLimit(defs, numBlocks, sizeLimit, blockIdx),
                  [opts EXCEPT !.startingResources = <<AddRC(DEFAULT_BASE_RESOURCES, aggregateStorageFromBuildings)>>])
    /\ pc' = "dp"
    /\ UNCHANGED <<inputVars, driverVars, ret, callVars>>

\* the inner loop body for state si of bucket w and variant vi
\* (lines 332-505)
Expand ==
    /\ pc = "dp"
    /\ w <= ctx.capacity
    /\ si <= Len(dpMaps[w + 1])
    /\ vi <= Len(ctx.variants)
    /\ LET e == dpMaps[w + 1][si]
           s == Successor(ctx, w, e.key, e.node, vi)
       IN IF Feasible(ctx, w, e.key, e.node, vi)
          THEN /\ dpMaps' = [dpMaps EXCEPT ![s.nw + 1] = InsertEntry(@, s)]
               /\ updatedIndices' = IF Inserts(dpMaps[s.nw + 1], s) THEN updatedIndices \cup {s.nw} ELSE updatedIndices
          ELSE UNCHANGED <<dpMaps, updatedIndices>>
    /\ IF vi < Len(ctx.variants)
       THEN vi' = vi + 1 /\ si' = si
       ELSE vi' = 1 /\ si' = si + 1
    /\ UNCHANGED <<inputVars, driverVars, ret, callVars, pc, ctx, w, result>>

\* the end of iteration w of the outer loop: the updated buckets are pruned
\* (line 507)
EndBucket ==
    /\ pc = "dp"
    /\ w <= ctx.capacity
    /\ si > Len(dpMaps[w + 1]) \/ Len(ctx.variants) = 0
    /\ dpMaps' = [b \in 1..Len(dpMaps) |->
                     IF (b - 1) \in updatedIndices THEN pruneMapToBeam(ctx, dpMaps[b], ctx.BEAM_WIDTH) ELSE dpMaps[b]]
    /\ updatedIndices' = {}
    /\ w' = w + 1
    /\ si' = 1
    /\ vi' = 1
    /\ UNCHANGED <<inputVars, driverVars, ret, callVars, pc, ctx, result>>

\* the solve ends: selection, back-reconstruction, simulation and the
\* returned value (lines 510-748)
SolveReturn ==
    /\ pc = "dp"
    /\ w > ctx.capacity
    /\ \E d \in Durations :
          /\ ctx.debug \/ d = 0
          /\ result' = SolveResult(ctx, dpMaps, d)
    /\ pc' = "ret"
    /\ UNCHANGED <<inputVars, driverVars, ret, callVars, ctx, dpMaps, w, si, vi, updatedIndices>>

\* the call of optimizeBlockIncomeFromDefinitions returns its value
ReturnSingle ==
    /\ pc = "ret"
    /\ entry = "single"
    /\ ret' = result
    /\ pc' = "done"
    /\ UNCHANGED <<inputVars, solveVars, driverVars, callVars>>

\* the solve of numBlocks = 1 has returned and the result is packaged
\* (lines 775-812)
ReturnOneBlock ==
    /\ pc = "ret"
    /\ entry = "multi"
    /\ numBlocks = 1
    /\ ret' = OneBlockResult(result)
    /\ pc' = "done"
    /\ UNCHANGED <<inputVars, solveVars, driverVars, callVars>>

\* lines 974-998: the block is recorded and the aggregates advance
PushBlock(block) ==
    /\ blockResults' = Append(blockResults, block)
    /\ aggregateIncome' = aggregateIncome + block.totalIncome
    /\ aggregateStorageFromBuildings' = AddRC(aggregateStorageFromBuildings, block.blockStorage)

\* the solve of block blockIdx has returned; the rest of the loop body
\* (lines 926-998)
ReturnBlock ==
    /\ pc = "ret"
    /\ entry = "multi"
    /\ numBlocks >= 2
    /\ IF result.kind = "null"
       THEN /\ ret' = Null
            /\ pc' = "done"
            /\ UNCHANGED driverVars
       ELSE /\ PushBlock(BlockEntry(blockIdx + 1,
                                    IF blockIdx = numBlocks - 1 THEN InjectReserved(defs, result) ELSE result))
            /\ blockIdx' = blockIdx + 1
            /\ pc' = "loop"
            /\ UNCHANGED ret
    /\ UNCHANGED <<inputVars, solveVars, callVars>>

\* the block loop is over: the aggregate result (lines 1001-1014)
MultiReturn ==
    /\ pc = "loop"
    /\ blockIdx >= numBlocks
    /\ ret' = MultiResult(blockResults, aggregateIncome, aggregateStorageFromBuildings, opts.debug, numBlocks)
    /\ pc' = "done"
    /\ UNCHANGED <<inputVars, solveVars, driverVars, callVars>>

Next ==
    \/ CallSingle
    \/ CallMultiInvalid
    \/ CallMultiOne
    \/ CallMultiMany
    \/ StartBlock
    \/ Expand
    \/ EndBucket
    \/ SolveReturn
    \/ ReturnSingle
    \/ ReturnOneBlock
    \/ ReturnBlock
    \/ MultiReturn

Spec == Init /\ [][Next]_vars

\* The caller calls again with the same catalog, size limit, block count and
\* beam width: the same call, the call with the other debug option, or, after
\* optimizeMultipleBlocks with one block, optimizeBlockIncomeFromDefinitions.
CallAgain ==
    /\ pc = "done"
    /\ run = 1
    /\ run' = 2
    /\ first' = [entry |-> entry, debug |-> opts.debug, ret |-> ret]
    /\ entry' \in {entry} \cup (IF entry = "multi" /\ numBlocks = 1 THEN {"single"} ELSE {})
    /\ opts' \in {[opts EXCEPT !.debug = d] : d \in BOOLEAN}
    /\ pc' = "call"
    /\ ctx' = NoCtx
    /\ dpMaps' = <<>>
    /\ w' = 0
    /\ si' = 1
    /\ vi' = 1
    /\ updatedIndices' = {}
    /\ result' = NoRet
    /\ blockIdx' = 0
    /\ blockResults' = <<>>
    /\ aggregateIncome' = 0
    /\ aggregateStorageFromBuildings' = ZeroRC
    /\ ret' = NoRet
    /\ UNCHANGED <<defs, numBlocks, sizeLimit, uiVars>>

NextTwice == Next \/ CallAgain

SpecTwice == Init /\ [][NextTwice]_vars

\* ------------------------------------------------------------------------
\* The Welcome component (src/unnamed/part_001)
\* ------------------------------------------------------------------------
\* the number fields of the form as parseInt reads them, 0 standing for a
\* text parseInt cannot read
NumBlocksInputs == 0..MaxBlocks

SizeLimitInputs == 1..MaxC

BeamWidthInputs == {0, 50}

\* lines 50-52
ParsedNumBlocks(n) == Max(1, IF n = 0 THEN 1 ELSE n)

ParsedSizeLimit(n) == Max(1, IF n = 0 THEN 16 ELSE n)

ParsedBeamWidth(n) == Max(100, IF n = 0 THEN 400 ELSE n)

\* the messages of setError
Message(text) == [kind |-> "message", text |-> text]

\* no call of the optimizer is running
NoCall ==
    /\ pc' = "idle"
    /\ ctx' = NoCtx
    /\ dpMaps' = <<>>
    /\ w' = 0
    /\ si' = 1
    /\ vi' = 1
    /\ updatedIndices' = {}
    /\ result' = NoRet
    /\ blockIdx' = 0
    /\ blockResults' = <<>>
    /\ aggregateIncome' = 0
    /\ aggregateStorageFromBuildings' = ZeroRC
    /\ ret' = NoRet

InitUI ==
    /\ entry = "multi"
    /\ defs = <<>>
    /\ numBlocks = 1
    /\ sizeLimit = 1
    /\ opts = [NoOpts EXCEPT !.beamWidth = <<400>>]
    /\ pc = "idle"
    /\ ctx = NoCtx
    /\ dpMaps = <<>>
    /\ w = 0
    /\ si = 1
    /\ vi = 1
    /\ updatedIndices = {}
    /\ result = NoRet
    /\ blockIdx = 0
    /\ blockResults = <<>>
    /\ aggregateIncome = 0
    /\ aggregateStorageFromBuildings = ZeroRC
    /\ ret = NoRet
    /\ run = 1
    /\ first = [entry |-> "none", debug |-> FALSE, ret |-> NoRet]
    /\ Mounted

\* the button "Optimize Blocks", rendered when there is no result and no run
\* is loading (line 84), starts runOptimizer up to its await (lines 46-55)
Click ==
    /\ resultState = Null
    /\ ~isLoading
    /\ isLoading' = TRUE
    /\ error' = Null
    /\ resultState' = Null
    /\ \E n \in NumBlocksInputs, c \in SizeLimitInputs, b \in BeamWidthInputs :
          /\ numBlocks' = ParsedNumBlocks(n)
          /\ sizeLimit' = ParsedSizeLimit(c)
          /\ opts' = [debug |-> FALSE, beamWidth |-> <<ParsedBeamWidth(b)>>, startingResources |-> <<>>]
    /\ uiPc' = "fetch"
    /\ fetched' = "none"
    /\ UNCHANGED <<entry, defs, pc, solveVars, driverVars, ret, run, first>>

\* the fetch or the parse of its body fails: the catch block (lines 70-73)
FetchRejects ==
    /\ uiPc = "fetch"
    /\ error' = Message("Optimizer failed")
    /\ isLoading' = FALSE
    /\ uiPc' = "idle"
    /\ UNCHANGED <<inputVars, pc, solveVars, driverVars, ret, run, first, resultState, fetched>>

\* the fetch resolves to a catalog, or to a JSON object without
\* buildingTypes, and the timer is set (lines 55-57, 69)
FetchResolves ==
    /\ uiPc = "fetch"
    /\ \/ \E c \in 1..Len(Catalogs) : defs' = Catalogs[c] /\ fetched' = "catalog"
       \/ defs' = <<>> /\ fetched' = "noBuildingTypes"
    /\ uiPc' = "timer"
    /\ UNCHANGED <<entry, numBlocks, sizeLimit, opts, pc, solveVars, driverVars, ret, run, first,
                   isLoading, resultState, error>>

\* optimizeMultipleBlocks reads defs.buildingTypes.misc of an object without
\* buildingTypes (optimize.tsx, line 826)
ThrowsTypeError == fetched = "noBuildingTypes" /\ numBlocks >= 2

\* the timer fires and the callback calls optimizeMultipleBlocks (line 58)
TimerFires ==
    /\ uiPc = "timer"
    /\ ~ThrowsTypeError
    /\ uiPc' = "running"
    /\ pc' = "call"
    /\ UNCHANGED <<inputVars, solveVars, driverVars, ret, run, first, isLoading, resultState, error, fetched>>

\* the timer fires and optimizeMultipleBlocks throws: the callback runs outside
\* the try block, nothing catches the error and the callback ends at line 58
TimerFiresThrows ==
    /\ uiPc = "timer"
    /\ ThrowsTypeError
    /\ uiPc' = "threw"
    /\ UNCHANGED <<inputVars, pc, solveVars, driverVars, ret, run, first, isLoading, resultState, error, fetched>>

\* a step of the call of optimizeMultipleBlocks inside the callback
OptimizerStep ==
    /\ uiPc = "running"
    /\ \/ CallMultiOne
       \/ CallMultiMany
       \/ StartBlock
       \/ Expand
       \/ EndBucket
       \/ SolveReturn
       \/ ReturnOneBlock
       \/ ReturnBlock
       \/ MultiReturn

\* optimizeMultipleBlocks has returned: the rest of the callback (lines 63-68)
CallbackEnds ==
    /\ uiPc = "running"
    /\ pc = "done"
    /\ IF ret.kind = "multi"
       THEN resultState' = ret /\ UNCHANGED error
       ELSE error' = Message("No valid solution found") /\ UNCHANGED resultState
    /\ isLoading' = FALSE
    /\ uiPc' = "idle"
    /\ NoCall
    /\ UNCHANGED <<inputVars, run, first, fetched>>

\* the button "New Optimization" of the results view (lines 135-140)
NewOptimization ==
    /\ resultState # Null
    /\ ~isLoading
    /\ resultState' = Null
    /\ UNCHANGED <<inputVars, pc, solveVars, driverVars, ret, run, first, isLoading, error, uiPc, fetched>>

\* the steps the browser takes by itself: a settled promise, a timer that is
\* due, the end of the callback
UiStep == FetchRejects \/ FetchResolves \/ TimerFires \/ TimerFiresThrows \/ CallbackEnds

NextUI == Click \/ NewOptimization \/ UiStep \/ OptimizerStep

\* the call of optimizeMultipleBlocks has begun and has not returned: the
\* states where OptimizerStep is enabled
CallRunning == uiPc = "running" /\ pc # "done"

\* the event loop runs every settled promise and every timer that is due, and
\* a call that has begun runs on (weak fairness of OptimizerStep, its
\* enabling condition written out); the user is free not to click
SpecUI ==
    /\ InitUI
    /\ [][NextUI]_vars
    /\ WF_vars(UiStep)
    /\ ([]<>(~CallRunning) \/ []<><<OptimizerStep>>_vars)

\* ------------------------------------------------------------------------
\* Properties
\* ------------------------------------------------------------------------
\* the sum of size * count over a combination
CombinationSize(comb) == SumSeq([k \in 1..Len(comb) |-> comb[k].size * comb[k].count])

Returned == pc = "done"

SingleResult == Returned /\ entry = "single" /\ ret.kind = "result"

MultiResultReturned == Returned /\ entry = "multi" /\ ret.kind = "multi"

\* C1: a result of the single-block optimizer reports a totalSize that is the
\* sum of size * count over its combination and is at most the size limit C.
C1_SingleBlockSizeBudget ==
    SingleResult => (ret.totalSize = CombinationSize(ret.combination) /\ ret.totalSize <= sizeLimit)

\* C2: in a result of optimizeMultipleBlocks with N >= 2 every block, the last
\* one with its injected reserved variants included, has a totalSize that is
\* the sum of size * count over its combination and is at most C.
C2_MultiBlockSizeBudget ==
    (MultiResultReturned /\ numBlocks >= 2) =>
        \A k \in 1..Len(ret.blocks) :
            /\ ret.blocks[k].totalSize = CombinationSize(ret.blocks[k].combination)
            /\ ret.blocks[k].totalSize <= sizeLimit

\* C3: when requiredMask > 0 and the single-block optimizer returns a result,
\* every mandatory misc name is in the combination with count >= 1.
C3_MandatoryCoverage ==
    (SingleResult /\ ctx.requiredMask > 0) =>
        \A i \in 1..Len(ctx.miscNames) :
            \E k \in 1..Len(ret.combination) :
                ret.combination[k].name = ctx.miscNames[i] /\ ret.combination[k].count >= 1

\* some state of some bucket carries the full mask
SomeStateCovers == \E b \in 1..Len(dpMaps) : \E k \in 1..Len(dpMaps[b]) : dpMaps[b][k].key[6] = ctx.requiredMask

\* C4: when requiredMask > 0 the single-block optimizer returns null if and
\* only if, after the outer loop, no state of any bucket has mask = requiredMask.
C4_NoSolutionIffNoCover ==
    (Returned /\ entry = "single" /\ ctx.requiredMask > 0) => ((ret.kind = "null") <=> ~SomeStateCovers)

StartNonNegative == \A a \in Axes : ctx.baseResources[a] >= 0

\* C5: with non-negative starting resources, money, wood, cement and steel are
\* >= 0 in every state stored in any bucket at any point of a solve.
C5_ResourcesNonNegative ==
    StartNonNegative =>
        \A b \in 1..Len(dpMaps) : \A k \in 1..Len(dpMaps[b]) : \A p \in 2..5 : dpMaps[b][k].key[p] >= 0

\* a stored state whose cement balance was floored at 0 by a placement
C5_Witness ==
    /\ pc = "dp"
    /\ StartNonNegative
    /\ \E b \in 1..Len(dpMaps) : \E k \in 1..Len(dpMaps[b]) :
          /\ dpMaps[b][k].key[4] = 0
          /\ dpMaps[b][k].node.variantIndex >= 1
          /\ ctx.baseResources.cement + ctx.variants[dpMaps[b][k].node.variantIndex].storageCapacity.rc.cement < 0

Elements(sq) == {sq[k] : k \in 1..Len(sq)}

Occurrences(sq, x) == Cardinality({k \in 1..Len(sq) : sq[k] = x})

SameMultiset(sq, t) == Len(sq) = Len(t) /\ \A x \in Elements(sq) : Occurrences(sq, x) = Occurrences(t, x)

\* two single-block values carry the same decisions
SameSolve(a, b) ==
    /\ a.kind = b.kind
    /\ a.kind = "result" =>
          /\ SameMultiset(a.combination, b.combination)
          /\ a.totalIncome = b.totalIncome
          /\ a.averageEfficiencyByType = b.averageEfficiencyByType

\* two values of either function carry the same decisions
SameDecisions(a, b) ==
    /\ SameSolve(a, b)
    /\ a.kind = "multi" =>
          /\ Len(a.blocks) = Len(b.blocks)
          /\ \A k \in 1..Len(a.blocks) :
                /\ SameMultiset(a.blocks[k].combination, b.blocks[k].combination)
                /\ a.blocks[k].totalIncome = b.blocks[k].totalIncome
                /\ a.blocks[k].averageEfficiencyByType = b.blocks[k].averageEfficiencyByType
          /\ a.aggregateTotalIncome = b.aggregateTotalIncome

SecondReturned == Returned /\ run = 2

\* C6: two calls of the same function with identical catalog, C and options
\* return the same combination (as a multiset), totalIncome and
\* averageEfficiencyByType, whatever the clock reads.
C6_Determinism ==
    (SecondReturned /\ first.entry = entry /\ first.debug = opts.debug) => SameDecisions(first.ret, ret)

\* two debug calls that returned results after different clock readings
C6_Witness ==
    /\ SecondReturned /\ first.entry = entry /\ first.debug = opts.debug
    /\ entry = "single" /\ ret.kind = "result" /\ Len(ret.combination) >= 2
    /\ ret.debugInfo # <<>> /\ first.ret.debugInfo # ret.debugInfo

\* C7: two calls that differ only in opts.debug return the same combination,
\* totalIncome, averageEfficiencyByType and totalSize; only the debug call
\* carries debugInfo.
C7_DebugDoesNotAlterDecisions ==
    (SecondReturned /\ first.entry = entry /\ first.debug # opts.debug) =>
        /\ first.ret.kind = ret.kind
        /\ ret.kind = "result" =>
              /\ first.ret.combination = ret.combination
              /\ first.ret.totalIncome = ret.totalIncome
              /\ first.ret.averageEfficiencyByType = ret.averageEfficiencyByType
              /\ first.ret.totalSize = ret.totalSize
              /\ (ret.debugInfo # <<>>) <=> opts.debug
              /\ (first.ret.debugInfo # <<>>) <=> first.debug
        /\ ret.kind = "multi" =>
              /\ first.ret.blocks = ret.blocks
              /\ first.ret.aggregateTotalIncome = ret.aggregateTotalIncome
              /\ first.ret.aggregateTotalStorage = ret.aggregateTotalStorage
              /\ (ret.debugInfo # <<>>) <=> opts.debug
              /\ (first.ret.debugInfo # <<>>) <=> first.debug

\* a debug call and a plain call of the single-block optimizer whose beam
\* dropped states, both returning a placement
C7_Witness ==
    /\ SecondReturned /\ first.entry = entry /\ first.debug # opts.debug
    /\ entry = "single" /\ ret.kind = "result" /\ Len(ret.combination) >= 2
    /\ \E b \in 1..Len(dpMaps) : Len(dpMaps[b]) = ctx.BEAM_WIDTH

\* the storage of one combination item on one axis
ItemStorage(item, a) == IF item.storageCapacity.obj THEN item.storageCapacity.rc[a] * item.count ELSE 0

InnerSum(block, a) == SumSeq([k \in 1..Len(block.combination) |-> ItemStorage(block.combination[k], a)])

\* C8: in every multi-block result, per axis, aggregateTotalStorage is the base
\* resources plus the sum over the blocks of the storage of their items with
\* object-shaped storage times their count, and blockStorage is the block's sum.
C8_StorageAggregation ==
    MultiResultReturned =>
        \A a \in Axes :
            /\ ret.aggregateTotalStorage[a] =
                   DEFAULT_BASE_RESOURCES[a] + SumSeq([k \in 1..Len(ret.blocks) |-> InnerSum(ret.blocks[k], a)])
            /\ \A k \in 1..Len(ret.blocks) : ret.blocks[k].blockStorage[a] = InnerSum(ret.blocks[k], a)

\* a result of several blocks, two of them with storage, one holding a
\* storage building more than once
C8_Witness ==
    /\ MultiResultReturned
    /\ numBlocks >= 2
    /\ \E j, k \in 1..Len(ret.blocks) :
          /\ j # k
          /\ ret.blocks[j].blockStorage.money > 0
          /\ ret.blocks[k].blockStorage.money > 0
          /\ \E n \in 1..Len(ret.blocks[k].combination) :
                ret.blocks[k].combination[n].storageCapacity.obj /\ ret.blocks[k].combination[n].count >= 2

\* C9: with C = 0 the single-block optimizer returns an empty combination with
\* totalIncome = 0 when requiredMask = 0, and null when requiredMask > 0.
C9_ZeroCapacity ==
    (Returned /\ entry = "single" /\ sizeLimit = 0) =>
        IF ctx.requiredMask = 0
        THEN ret.kind = "result" /\ ret.combination = <<>> /\ ret.totalIncome = 0
        ELSE ret.kind = "null"

\* C10: optimizeMultipleBlocks(catalog, 1, C, opts) returns null exactly when
\* optimizeBlockIncomeFromDefinitions(catalog, C, opts) does; otherwise its only
\* block has the same combination, totalIncome, totalSize and
\* averageEfficiencyByType, and aggregateTotalIncome is that totalIncome.
C10_OneBlockMatchesSingle ==
    (SecondReturned /\ first.entry = "multi" /\ entry = "single" /\ first.debug = opts.debug) =>
        /\ (first.ret.kind = "null") <=> (ret.kind = "null")
        /\ ret.kind = "result" =>
              /\ first.ret.kind = "multi"
              /\ Len(first.ret.blocks) = 1
              /\ first.ret.blocks[1].combination = ret.combination
              /\ first.ret.blocks[1].totalIncome = ret.totalIncome
              /\ first.ret.blocks[1].totalSize = ret.totalSize
              /\ first.ret.blocks[1].averageEfficiencyByType = ret.averageEfficiencyByType
              /\ first.ret.aggregateTotalIncome = ret.totalIncome

\* the one-block call and the single-block call both returned a placement
C10_Witness ==
    /\ SecondReturned /\ first.entry = "multi" /\ entry = "single" /\ first.debug = opts.debug
    /\ ret.kind = "result" /\ Len(ret.combination) >= 2 /\ ret.totalIncome > 0

\* the sequence the back-reconstruction of the finished solve yields
PlacedSequence == ChosenSequence(ctx, dpMaps, Selection(ctx, dpMaps))

PlacedMetrics == simulateSequence(PlacedSequence)

PlacedIncomes == SumSeq([k \in 1..Len(PlacedSequence) |-> PlacedSequence[k].income])

NoBusinessStored ==
    \A b \in 1..Len(dpMaps) : \A k \in 1..Len(dpMaps[b]) : SumSeq(dpMaps[b][k].node.countsArr) = 0

\* C12: with the house Villa (capacity 4, income 2, size 2) that prefers only
\* an absent business, the business Shop (capacity 4, income 10, size 2) and
\* C = 4, no placement of the business is stored, the result holds no
\* business and its totalIncome is 2.
C12_UnstaffableBusinessDropped ==
    (SingleResult /\ defs = <<Villa, Shop>> /\ sizeLimit = 4 /\ opts.startingResources = <<>>) =>
        /\ NoBusinessStored
        /\ \A k \in 1..Len(ret.combination) : ret.combination[k].workerType # "employees"
        /\ ret.totalIncome = 2

\* the mandatory misc names of the catalog the driver was called with
MandatoryMiscNames == Elements(NamesOf(SelectSeq(buildVariantsFromDefinitions(defs), MandatoryMisc)))

\* the number of placements of name in a block of the returned value
PlacedInBlock(block, name) ==
    SumSeq([k \in 1..Len(block.combination) |->
               IF block.combination[k].name = name THEN block.combination[k].count ELSE 0])

\* C13: for N >= 2, no block before the last holds a variant of a mandatory
\* misc name, and over all blocks each mandatory misc name is placed exactly
\* once.
C13_MandatoryMiscOnceInLastBlock ==
    (MultiResultReturned /\ numBlocks >= 2) =>
        \A name \in MandatoryMiscNames :
            /\ \A k \in 1..(Len(ret.blocks) - 1) : PlacedInBlock(ret.blocks[k], name) = 0
            /\ SumSeq([k \in 1..Len(ret.blocks) |-> PlacedInBlock(ret.blocks[k], name)]) = 1

\* C14: optimizeMultipleBlocks called with N < 1 raises an error before the
\* catalog is expanded and before any single-block solve is started, and
\* returns no result.
C14_InvalidArgumentBeforeWork ==
    (entry = "multi" /\ numBlocks < 1) =>
        /\ pc \in {"call", "done"}
        /\ ctx = NoCtx /\ dpMaps = <<>> /\ result = NoRet /\ blockResults = <<>>
        /\ pc = "done" => ret.kind = "error"

\* the call with N = 0 has thrown
C14_Witness == Returned /\ entry = "multi" /\ numBlocks < 1 /\ ret.kind = "error"

\* a definition of the catalog has a negative size or a negative income
HasNegative(catalog) ==
    \E k \in 1..Len(catalog) :
        \/ OrZero(catalog[k].baseIncome) < 0
        \/ OrZero(catalog[k].size) < 0
        \/ \E u \in 1..Len(catalog[k].upgrades) :
              OrZero(catalog[k].upgrades[u].income) < 0 \/ OrZero(catalog[k].upgrades[u].additionalIncome) < 0

\* C15: when a definition has a negative size or income, the call fails with
\* InvalidCatalog before any DP transition is attempted: no variant is
\* produced, no state is stored and no result is returned.
C15_InvalidCatalogOnNegative ==
    HasNegative(defs) =>
        /\ ctx # NoCtx => ctx.variants = <<>>
        /\ \A b \in 2..Len(dpMaps) : dpMaps[b] = <<>>
        /\ pc = "done" => ret.kind = "error"

\* a solve of the block loop is running or has just returned
InBlockSolve == entry = "multi" /\ numBlocks >= 2 /\ pc \in {"dp", "ret"}

PriorBlockStorage(a) == SumSeq([k \in 1..Len(blockResults) |-> blockResults[k].blockStorage[a]])

\* C16: for N >= 2 the solve of block i is started with, per axis, the base
\* resources plus the blockStorage of the blocks 1..i-1; block 1 starts with
\* exactly the base resources.
C16_ResourceCarryOver ==
    InBlockSolve =>
        /\ Len(blockResults) = blockIdx
        /\ \A a \in Axes :
              /\ ctx.baseResources[a] = DEFAULT_BASE_RESOURCES[a] + PriorBlockStorage(a)
              /\ blockIdx = 0 => ctx.baseResources[a] = DEFAULT_BASE_RESOURCES[a]
        /\ dpMaps[1][1].key[2] = ctx.baseResources.money /\ dpMaps[1][1].key[3] = ctx.baseResources.wood
        /\ dpMaps[1][1].key[4] = ctx.baseResources.cement /\ dpMaps[1][1].key[5] = ctx.baseResources.steel

\* the third block is being solved after two blocks that both added storage
C16_Witness ==
    /\ InBlockSolve /\ pc = "dp" /\ blockIdx = 2
    /\ blockResults[1].blockStorage.money > 0 /\ blockResults[2].blockStorage.money > 0
    /\ ctx.baseResources.money > DEFAULT_BASE_RESOURCES.money + blockResults[1].blockStorage.money

\* following (prevW, prevKey) from the state key of bucket b resolves at every
\* step to a stored node of a lower bucket and ends at the root of bucket 0
RECURSIVE ChainEndsAtRoot(_, _, _)
ChainEndsAtRoot(dp, b, key) ==
    /\ b \in 0..(Len(dp) - 1)
    /\ BucketIndex(dp[b + 1], key) # 0
    /\ LET node == dp[b + 1][BucketIndex(dp[b + 1], key)].node
       IN IF node.variantIndex = -1
          THEN b = 0 /\ key = initialKey(ctx)
          ELSE node.prevW < b /\ ChainEndsAtRoot(dp, node.prevW, node.prevKey)

ChainsResolve ==
    \A b \in 1..Len(dpMaps) : \A k \in 1..Len(dpMaps[b]) : ChainEndsAtRoot(dpMaps, b - 1, dpMaps[b][k].key)

\* a step of the outer loop leaves the buckets 0..w as they are
ProcessedBucketsFrozen ==
    (pc = "dp" /\ pc' = "dp") => \A b \in 1..Min(w + 1, Len(dpMaps)) : dpMaps'[b] = dpMaps[b]

\* C17: once the outer loop processes bucket w, the buckets up to w are never
\* inserted into, replaced in or pruned again, and the back pointers of every
\* stored state resolve step by step to stored nodes and end at the root of
\* bucket 0.
C17_BackPointersSurvivePruning == [](ChainsResolve) /\ [][ProcessedBucketsFrozen]_vars

\* some feasible successor of a processed state is missing from its bucket
SomeSuccessorPruned ==
    \E b \in 1..Min(w, Len(dpMaps)) : \E k \in 1..Len(dpMaps[b]) : \E i \in 1..Len(ctx.variants) :
        /\ Feasible(ctx, b - 1, dpMaps[b][k].key, dpMaps[b][k].node, i)
        /\ BucketIndex(dpMaps[b - 1 + ctx.variants[i].size + 1],
                       Successor(ctx, b - 1, dpMaps[b][k].key, dpMaps[b][k].node, i).key) = 0

\* a finished solve in which pruning deleted states and a surviving state has
\* a chain of at least three placements
C17_Witness ==
    /\ pc = "ret"
    /\ SomeSuccessorPruned
    /\ \E b \in 4..Len(dpMaps) : \E k \in 1..Len(dpMaps[b]) :
          /\ dpMaps[b][k].node.prevW >= 2
          /\ ChainEndsAtRoot(dpMaps, b - 1, dpMaps[b][k].key)

\* the variants on the back-pointer chain of the state key of bucket b
ChainOf(b, key) == [k \in 1..Len(BackWalk(dpMaps, b, key)) |-> ctx.variants[BackWalk(dpMaps, b, key)[k]]]

BitSet(mask, i) == (mask \div Pow2(i)) % 2 = 1

\* the path consistency of the state key of bucket b
PathConsistent(b, key) ==
    /\ SumSeq([k \in 1..Len(ChainOf(b, key)) |-> ChainOf(b, key)[k].size]) = b
    /\ \A bi \in 1..ctx.nBusinesses :
          key[7][bi] = Cardinality({k \in 1..Len(ChainOf(b, key)) :
                                       /\ ChainOf(b, key)[k].workerType = "employees"
                                       /\ ChainOf(b, key)[k].name = ctx.businessNames[bi]})
    /\ \A i \in 1..Len(ctx.miscNames) :
          BitSet(key[6], i - 1) <=> \E k \in 1..Len(ChainOf(b, key)) :
                                        /\ ChainOf(b, key)[k].type = "misc"
                                        /\ ChainOf(b, key)[k].name = ctx.miscNames[i]
    /\ key[6] < Pow2(Len(ctx.miscNames))

\* C18: for every state stored in bucket w, the sizes of the variants on its
\* back-pointer chain sum to w, the counts of its key are the numbers of
\* employees variants of each business name on the chain, and bit i of its
\* mask is set exactly when a misc variant of mandatory name i is on the chain.
C18_PathConsistency ==
    \A b \in 1..Len(dpMaps) : \A k \in 1..Len(dpMaps[b]) : PathConsistent(b - 1, dpMaps[b][k].key)

\* a stored state with both mandatory names on its chain
C18_Witness ==
    \E b \in 1..Len(dpMaps) : \E k \in 1..Len(dpMaps[b]) :
        /\ Len(ChainOf(b - 1, dpMaps[b][k].key)) >= 2
        /\ dpMaps[b][k].key[6] = 3

\* a stored state with a business on its chain
C18_CountsReached ==
    \E b \in 1..Len(dpMaps) : \E k \in 1..Len(dpMaps[b]) : SumSeq(dpMaps[b][k].key[7]) >= 1

\* the outer loop stands between two iterations, or has ended
BetweenIterations == (pc = "dp" /\ si = 1 /\ vi = 1 /\ updatedIndices = {}) \/ pc = "ret"

\* C19: for beamWidth >= 1, after the pruning that ends an iteration of the
\* outer loop, and so when the selection starts, every bucket holds at most
\* beamWidth states.
C19_BeamBound ==
    (BetweenIterations /\ ctx.BEAM_WIDTH >= 1) =>
        \A b \in 1..Len(dpMaps) : Len(dpMaps[b]) <= ctx.BEAM_WIDTH

\* the selection starts after a solve whose pruning deleted states and left
\* a bucket filled up to the beam width
C19_Witness ==
    /\ pc = "ret"
    /\ opts.beamWidth # <<>>
    /\ SomeSuccessorPruned
    /\ \E b \in 2..Len(dpMaps) : Len(dpMaps[b]) = ctx.BEAM_WIDTH

\* the state at position k of a bucket carries the full mask
Covering(bucket, k) == bucket[k].key[6] = ctx.requiredMask

\* position d of the bucket is deleted and position r is retained by the step
DeletedAndRetained(b, d, r) ==
    /\ BucketIndex(dpMaps'[b], dpMaps[b][d].key) = 0
    /\ BucketIndex(dpMaps'[b], dpMaps[b][r].key) # 0

\* the pruning that ends an iteration deletes no covering state in favour of
\* a non-covering one, and within a coverage class no state in favour of one
\* with a strictly lower score
PrunerPrefersCovering ==
    (pc = "dp" /\ pc' = "dp" /\ w' = w + 1 /\ ctx.requiredMask > 0) =>
        \A b \in 1..Len(dpMaps) : \A d, r \in 1..Len(dpMaps[b]) :
            DeletedAndRetained(b, d, r) =>
                /\ ~(Covering(dpMaps[b], d) /\ ~Covering(dpMaps[b], r))
                /\ (Covering(dpMaps[b], d) <=> Covering(dpMaps[b], r)) =>
                       ~(dpMaps[b][r].node.total < dpMaps[b][d].node.total)

\* C20: when requiredMask > 0 and a bucket is pruned, no state whose mask is
\* requiredMask is deleted while a state with another mask is retained, and
\* among states of the same coverage class none is deleted while one with a
\* strictly lower score is retained.
C20_PrunerPrefersCovering == [][PrunerPrefersCovering]_vars

\* no two entries of a bucket carry the same key
KeysUnique ==
    \A b \in 1..Len(dpMaps) : \A j, k \in 1..Len(dpMaps[b]) : dpMaps[b][j].key = dpMaps[b][k].key => j = k

\* the step is one pass of the inner loop body
ExpandStep == pc = "dp" /\ pc' = "dp" /\ w' = w /\ <<si', vi'>> # <<si, vi>>

\* a transition whose key is present in its target bucket replaces the stored
\* node exactly when its score is strictly greater, and leaves it otherwise
ReplacesIffStrictlyGreater ==
    (ExpandStep /\ Feasible(ctx, w, dpMaps[w + 1][si].key, dpMaps[w + 1][si].node, vi)) =>
        LET s == Successor(ctx, w, dpMaps[w + 1][si].key, dpMaps[w + 1][si].node, vi)
            k == BucketIndex(dpMaps[s.nw + 1], s.key)
        IN k # 0 =>
              /\ Len(dpMaps'[s.nw + 1]) = Len(dpMaps[s.nw + 1])
              /\ dpMaps'[s.nw + 1][k].node = IF s.node.total > dpMaps[s.nw + 1][k].node.total
                                             THEN s.node
                                             ELSE dpMaps[s.nw + 1][k].node

\* the score of a key that stays in its bucket does not decrease
ScoreNeverDecreases ==
    (pc = "dp" /\ pc' = "dp") =>
        \A b \in 1..Len(dpMaps) : \A k \in 1..Len(dpMaps[b]) :
            BucketIndex(dpMaps'[b], dpMaps[b][k].key) # 0 =>
                dpMaps'[b][BucketIndex(dpMaps'[b], dpMaps[b][k].key)].node.total >= dpMaps[b][k].node.total

\* C21: a bucket never holds two states with the same key; a transition that
\* produces a key already present replaces the stored node if and only if its
\* score is strictly greater, so the score stored under a key never decreases
\* while the key stays in the bucket.
C21_Coalescing == [](KeysUnique) /\ [][ReplacesIffStrictlyGreater]_vars /\ [][ScoreNeverDecreases]_vars

\* the state under expansion has a feasible successor whose key is stored in
\* the target bucket with a strictly lower score
C21_Witness ==
    /\ pc = "dp" /\ w <= ctx.capacity /\ si <= Len(dpMaps[w + 1]) /\ vi <= Len(ctx.variants)
    /\ Feasible(ctx, w, dpMaps[w + 1][si].key, dpMaps[w + 1][si].node, vi)
    /\ LET s == Successor(ctx, w, dpMaps[w + 1][si].key, dpMaps[w + 1][si].node, vi)
           k == BucketIndex(dpMaps[s.nw + 1], s.key)
       IN k # 0 /\ s.node.total > dpMaps[s.nw + 1][k].node.total

\* the state under expansion has a feasible successor whose key is stored in
\* the target bucket with the same score on another path
C21_TieReached ==
    /\ pc = "dp" /\ w <= ctx.capacity /\ si <= Len(dpMaps[w + 1]) /\ vi <= Len(ctx.variants)
    /\ Feasible(ctx, w, dpMaps[w + 1][si].key, dpMaps[w + 1][si].node, vi)
    /\ LET s == Successor(ctx, w, dpMaps[w + 1][si].key, dpMaps[w + 1][si].node, vi)
           k == BucketIndex(dpMaps[s.nw + 1], s.key)
       IN k # 0 /\ s.node.total = dpMaps[s.nw + 1][k].node.total /\ s.node # dpMaps[s.nw + 1][k].node

\* no variant of the running solve is a mandatory business
NoMandatoryEmployees ==
    \A i \in 1..Len(ctx.variants) : ~(ctx.variants[i].workerType = "employees" /\ ctx.variants[i].mandatory)

\* the staffing prefeasibility of a stored node
Prefeasible(node) ==
    /\ 10 * node.totalHouseCapacity >= 9 * SumSeq(node.businessCapacityArr)
    /\ \A bi \in 1..ctx.nBusinesses : node.preferenceCapacity[bi] >= node.businessCapacityArr[bi]

\* C22: for a catalog with no mandatory employees variants, every stored state
\* has totalHouseCapacity >= 0.9 * (the sum of businessCapacity over all
\* businesses) and, for every business b, preferenceCapacity[b] >=
\* businessCapacity[b].
C22_StaffingPrefeasibility ==
    NoMandatoryEmployees => \A b \in 1..Len(dpMaps) : \A k \in 1..Len(dpMaps[b]) : Prefeasible(dpMaps[b][k].node)

\* a stored state holds two different businesses, and the placement of a
\* further business on it is refused for the staffing ratio alone
C22_Witness ==
    /\ pc = "dp" /\ NoMandatoryEmployees
    /\ \E b \in 1..Len(dpMaps) : \E k \in 1..Len(dpMaps[b]) : \E i \in 1..Len(ctx.variants) :
          /\ Cardinality({bi \in 1..ctx.nBusinesses : dpMaps[b][k].node.businessCapacityArr[bi] > 0}) >= 2
          /\ b - 1 + ctx.variants[i].size <= ctx.capacity
          /\ ~StaffingFeasible(ctx, ctx.variants[i], dpMaps[b][k].node)
          /\ dpMaps[b][k].node.preferenceCapacity[IndexOf(ctx.businessNames, ctx.variants[i].name)]
                 >= dpMaps[b][k].node.businessCapacityArr[IndexOf(ctx.businessNames, ctx.variants[i].name)]
                        + ctx.variants[i].capacity

\* the four balances of a key
Balances(key) == RC(key[2], key[3], key[4], key[5])

\* the starting resources are at most the upper bounds
StartWithinUpper == \A a \in Axes : ctx.baseResources[a] <= ctx.maxResourceUpper[a]

\* the placement recorded in a stored node other than the root: a non-storage
\* variant was affordable on every axis and left the balances as they were, a
\* storage variant added its contribution, within [0, upper bound]
ThresholdStep(key, node) ==
    LET v == ctx.variants[node.variantIndex]
        before == Balances(node.prevKey)
        after == Balances(key)
    IN IF isStorageBuilding(v)
       THEN \A a \in Axes : after[a] = Max(0, Min(ctx.maxResourceUpper[a], before[a] + v.storageCapacity.rc[a]))
       ELSE \A a \in Axes : before[a] >= v.costs[a] /\ after[a] = before[a]

\* the placement recorded in a stored node lowered no balance
NoBalanceLowered(key, node) == \A a \in Axes : Balances(key)[a] >= Balances(node.prevKey)[a]

\* C23 as stated: a non-storage variant is placed only on balances that reach
\* its costs and leaves the four balances unchanged; a storage variant is
\* placed whatever its costs and adds its storage contribution per axis; with
\* starting resources within the upper bounds, no placement lowers a balance.
C23_ResourcesAreThresholds ==
    StartWithinUpper =>
        \A b \in 1..Len(dpMaps) : \A k \in 1..Len(dpMaps[b]) :
            dpMaps[b][k].node.variantIndex >= 1 =>
                /\ ThresholdStep(dpMaps[b][k].key, dpMaps[b][k].node)
                /\ NoBalanceLowered(dpMaps[b][k].key, dpMaps[b][k].node)

\* no storage variant of the running solve has a negative contribution
StorageContributionsNonNegative ==
    \A i \in 1..Len(ctx.variants) :
        isStorageBuilding(ctx.variants[i]) => \A a \in Axes : ctx.variants[i].storageCapacity.rc[a] >= 0

\* the same, the conclusion that no placement lowers a balance being drawn
\* for the catalogs whose storage contributions are non-negative only
ThresholdsWithNonNegativeStorage ==
    StartWithinUpper =>
        \A b \in 1..Len(dpMaps) : \A k \in 1..Len(dpMaps[b]) :
            dpMaps[b][k].node.variantIndex >= 1 =>
                /\ ThresholdStep(dpMaps[b][k].key, dpMaps[b][k].node)
                /\ StorageContributionsNonNegative => NoBalanceLowered(dpMaps[b][k].key, dpMaps[b][k].node)

\* a stored state placed a storage variant whose cost the balances did not
\* reach, and a state stored after it placed a non-storage variant that only
\* the added storage made affordable
ThresholdsExercised ==
    /\ StartWithinUpper /\ StorageContributionsNonNegative
    /\ \E b \in 1..Len(dpMaps) : \E k \in 1..Len(dpMaps[b]) :
          LET node == dpMaps[b][k].node
          IN /\ node.variantIndex >= 1
             /\ ~isStorageBuilding(ctx.variants[node.variantIndex])
             /\ ctx.variants[node.variantIndex].costs.wood > ctx.baseResources.wood
             /\ Balances(dpMaps[b][k].key).wood > ctx.baseResources.wood
    /\ \E b \in 1..Len(dpMaps) : \E k \in 1..Len(dpMaps[b]) :
          LET node == dpMaps[b][k].node
          IN /\ node.variantIndex >= 1
             /\ isStorageBuilding(ctx.variants[node.variantIndex])
             /\ ctx.variants[node.variantIndex].costs.wood > Balances(node.prevKey).wood

\* the aggregates after the placements of seq on node, in order
RECURSIVE Replay(_, _)
Replay(seq, node) == IF seq = <<>> THEN node ELSE Replay(Tail(seq), NextAggregates(ctx, Head(seq), node))

\* two nodes carry the same aggregates
SameAggregates(a, b) ==
    /\ a.incomeNeutral = b.incomeNeutral
    /\ a.houseBaseIncome = b.houseBaseIncome
    /\ a.totalHouseCapacity = b.totalHouseCapacity
    /\ a.businessIncomeBaseArr = b.businessIncomeBaseArr
    /\ a.businessCapacityArr = b.businessCapacityArr
    /\ a.countsArr = b.countsArr
    /\ a.preferenceCapacity = b.preferenceCapacity

\* the selection of the finished solve
Selected == Selection(ctx, dpMaps)

\* the stored node the selection chose
SelectedNode == dpMaps[Selected.bestW + 1][BucketIndex(dpMaps[Selected.bestW + 1], Selected.bestKey)].node

\* the (name, level) pairs of a combination with their counts
CombinationCounts(comb) == {<<comb[k].name, comb[k].level, comb[k].count>> : k \in 1..Len(comb)}

\* the (name, level) pairs of a sequence with their numbers of occurrences
SequenceCounts(seq) ==
    {<<seq[k].name, seq[k].level,
       Cardinality({j \in 1..Len(seq) : seq[j].name = seq[k].name /\ seq[j].level = seq[k].level})>> : k \in 1..Len(seq)}

\* C24: when requiredMask = 0, the state chosen after the outer loop is a
\* stored state whose score is at least the score of every state surviving in
\* any bucket 0..C, the root included, and the sequence reconstructed and
\* returned is the path of that state: its sizes sum to the state's bucket, its
\* placements replayed from the root give the state's aggregates, and the
\* returned combination counts its variants.
C24_SelectionMaximizes ==
    (pc = "ret" /\ ctx.requiredMask = 0) =>
        /\ Selected.ret
        /\ Selected.bestW \in 0..ctx.capacity
        /\ BucketIndex(dpMaps[Selected.bestW + 1], Selected.bestKey) # 0
        /\ \A b \in 1..Len(dpMaps) : \A k \in 1..Len(dpMaps[b]) : SelectedNode.total >= dpMaps[b][k].node.total
        /\ SumSeq([k \in 1..Len(PlacedSequence) |-> PlacedSequence[k].size]) = Selected.bestW
        /\ SameAggregates(Replay(PlacedSequence, initialNode(ctx)), SelectedNode)
        /\ result.kind = "result"
        /\ CombinationCounts(result.combination) = SequenceCounts(PlacedSequence)

\* a finished solve chose a state of at least two placements although states
\* of a strictly lower score survive in a later bucket and in an earlier one
C24_Witness ==
    /\ pc = "ret" /\ ctx.requiredMask = 0
    /\ Len(PlacedSequence) >= 2
    /\ \E b \in (Selected.bestW + 2)..Len(dpMaps) : \E k \in 1..Len(dpMaps[b]) :
          dpMaps[b][k].node.total < SelectedNode.total
    /\ \E b \in 2..Selected.bestW : \E k \in 1..Len(dpMaps[b]) :
          dpMaps[b][k].node.total < SelectedNode.total

\* the variants of the running solve expanded from upgrade u of definition d
VariantsOfUpgrade(d, u) ==
    {i \in 1..Len(ctx.variants) : ctx.variants[i].id = <<d.type, d.name, u.level>>}

\* baseIncome plus the additionalIncome of the upgrades of d up to level
IncrementalIncome(d, level) ==
    OrZero(d.baseIncome)
    + SumSeq([k \in 1..Len(d.upgrades) |->
                 IF d.upgrades[k].level <= level THEN OrZero(d.upgrades[k].additionalIncome) ELSE 0])

\* a catalog has been expanded for the running solve
Expanded == pc # "call" /\ ~(entry = "multi" /\ numBlocks < 1) /\ ~(entry = "multi" /\ pc = "loop" /\ blockIdx = 0)

\* C25: for every building definition and every upgrade level L, the variant
\* for level L has the upgrade's absolute income when the upgrade declares one,
\* and otherwise baseIncome plus the sum of additionalIncome over all upgrades
\* with level <= L.
C25_IncomePerLevel ==
    Expanded =>
        \A n \in 1..Len(defs) : \A k \in 1..Len(defs[n].upgrades) :
            LET d == defs[n]
                u == d.upgrades[k]
            IN /\ VariantsOfUpgrade(d, u) # {}
               /\ \A i \in VariantsOfUpgrade(d, u) :
                     ctx.variants[i].income = IF u.income # <<>> THEN u.income[1] ELSE IncrementalIncome(d, u.level)

\* the storage capacities upgrade u declares
DeclaredStorage(u) ==
    {u.storageCapacity[k] : k \in 1..Len(u.storageCapacity)} \cup {u.capacity[k] : k \in 1..Len(u.capacity)}

\* the storage contribution of the base definition
BaseStorage(d) ==
    IF d.storageCapacity # <<>> THEN d.storageCapacity[1]
    ELSE IF d.capacity # <<>> THEN d.capacity[1] ELSE NumStorage(0)

\* C26: for every upgrade, the variant's storage contribution is the upgrade's
\* storageCapacity or capacity whenever the upgrade declares one, as a number
\* or as an object over the four axes, and the base definition's storage
\* contribution otherwise.
C26_StoragePerLevel ==
    Expanded =>
        \A n \in 1..Len(defs) : \A k \in 1..Len(defs[n].upgrades) :
            LET d == defs[n]
                u == d.upgrades[k]
            IN \A i \in VariantsOfUpgrade(d, u) :
                  IF DeclaredStorage(u) # {}
                  THEN ctx.variants[i].storageCapacity \in DeclaredStorage(u)
                  ELSE ctx.variants[i].storageCapacity = BaseStorage(d)

\* the same for the upgrades that declare no storage capacity as an object
StoragePerLevelOfNumbers ==
    Expanded =>
        \A n \in 1..Len(defs) : \A k \in 1..Len(defs[n].upgrades) :
            LET d == defs[n]
                u == d.upgrades[k]
            IN \A i \in VariantsOfUpgrade(d, u) :
                  (\A x \in DeclaredStorage(u) : ~x.obj) =>
                      IF DeclaredStorage(u) # {}
                      THEN ctx.variants[i].storageCapacity \in DeclaredStorage(u)
                      ELSE ctx.variants[i].storageCapacity = BaseStorage(d)

\* the sequences of variant indices whose sizes fit into room
RECURSIVE FittingSequences(_, _)
FittingSequences(vs, room) ==
    {<<>>} \cup UNION {{<<i>> \o t : t \in FittingSequences(vs, room - vs[i].size)} :
                          i \in {j \in 1..Len(vs) : vs[j].size >= 1 /\ vs[j].size <= room}}

\* the simulator's tallies before its first pass
EmptyTally ==
    [residentPools |-> <<>>, totalHouseCapacity |-> 0, totalAllocatedEmployees |-> 0,
     businessIncome |-> RInt(0), houseBaseIncome |-> 0, neutralIncome |-> 0,
     businessCapacityByName |-> <<>>, businessAllocatedByName |-> <<>>, houseCapacityByName |-> <<>>]

\* the simulator's tallies when its second pass has visited seq[1..j]
AfterVisit(seq, j) == Staffing(seq, SubSeq(seq, 1, j), Inventory(seq, EmptyTally))

\* what pool k lost while the second pass visited seq[j]
Drawn(seq, j, k) == AfterVisit(seq, j - 1).residentPools[k].val - AfterVisit(seq, j).residentPools[k].val

\* the allocation bounds of the simulation of seq
AllocationBounds(seq) ==
    /\ \A j \in 1..Len(seq) :
          LET pools == AfterVisit(seq, j).residentPools
              allocated == AfterVisit(seq, j).totalAllocatedEmployees - AfterVisit(seq, j - 1).totalAllocatedEmployees
          IN /\ Len(pools) = Len(AfterVisit(seq, j - 1).residentPools)
             /\ \A k \in 1..Len(pools) :
                   /\ pools[k].val >= 0
                   /\ Drawn(seq, j, k) >= 0
                   /\ Drawn(seq, j, k) > 0 =>
                         /\ seq[j].workerType = "employees"
                         /\ pools[k].key = {"*"} \/ seq[j].name \in pools[k].key
             /\ allocated = SumSeq([k \in 1..Len(pools) |-> Drawn(seq, j, k)])
             /\ allocated >= 0
             /\ seq[j].workerType = "employees" => allocated <= seq[j].capacity
    /\ simulateSequence(seq).totalAllocatedEmployees <= simulateSequence(seq).totalHouseCapacity
    /\ ~RLess(houseEfficiency(simulateSequence(seq).totalHouseCapacity, simulateSequence(seq).totalAllocatedEmployees), RInt(0))
    /\ ~RLess(RInt(1), houseEfficiency(simulateSequence(seq).totalHouseCapacity, simulateSequence(seq).totalAllocatedEmployees))

\* the plain single-block solve of a catalog and a capacity has ended
PlainSolveEnded == pc = "ret" /\ entry = "single" /\ opts = NoOpts

\* C27: in the forward simulation of a placement sequence each employees
\* variant is allocated at most its capacity, workers are drawn only from pools
\* whose key is "*" or contains the business name, no pool goes below zero, so
\* totalAllocatedEmployees <= totalHouseCapacity and the house efficiency lies
\* in [0, 1].  The simulator reads nothing but the sequence: the bounds are
\* checked for the sequence every finished solve simulates and, once per
\* catalog and capacity, for every sequence of variants that fits the block.
C27_SimulatorAllocationBounds ==
    /\ pc = "ret" => AllocationBounds(PlacedSequence)
    /\ PlainSolveEnded =>
          \A idx \in FittingSequences(ctx.variants, ctx.capacity) :
              AllocationBounds([k \in 1..Len(idx) |-> ctx.variants[idx[k]]])

\* a finished solve simulates a sequence in which a pool is drained to zero,
\* one business is staffed in full and another one only in part
C27_Witness ==
    /\ pc = "ret"
    /\ \E k \in 1..Len(PlacedMetrics.residentPools) : PlacedMetrics.residentPools[k].val = 0
    /\ \E i, j \in 1..Len(PlacedSequence) :
          /\ PlacedSequence[i].workerType = "employees" /\ PlacedSequence[j].workerType = "employees"
          /\ MapGet(PlacedMetrics.businessAllocatedByName, PlacedSequence[i].name)
                 = MapGet(PlacedMetrics.businessCapacityByName, PlacedSequence[i].name)
          /\ MapGet(PlacedMetrics.businessAllocatedByName, PlacedSequence[j].name) > 0
          /\ MapGet(PlacedMetrics.businessAllocatedByName, PlacedSequence[j].name)
                 < MapGet(PlacedMetrics.businessCapacityByName, PlacedSequence[j].name)

\* the inner loop stands before a feasible transition
AtFeasibleTransition ==
    /\ pc = "dp" /\ w <= ctx.capacity /\ si <= Len(dpMaps[w + 1]) /\ vi <= Len(ctx.variants)
    /\ Feasible(ctx, w, dpMaps[w + 1][si].key, dpMaps[w + 1][si].node, vi)

\* the successor of the transition the inner loop stands before
NextSuccessor == Successor(ctx, w, dpMaps[w + 1][si].key, dpMaps[w + 1][si].node, vi)

\* C28: in every DP transition the estimator's totalAllocated is at most the
\* totalHouseCapacity of the successor, so the estimated house efficiency is at
\* most 1 and the residual-residents component of the key is
\* totalHouseCapacity - totalAllocated, the clamp at 0 never taking effect.
C28_EstimatorNeverOverAllocates ==
    AtFeasibleTransition =>
        /\ Estimate(ctx, NextSuccessor.node).totalAllocatedEst <= NextSuccessor.node.totalHouseCapacity
        /\ NextSuccessor.key[1] = Min(ctx.maxResidents,
                                      NextSuccessor.node.totalHouseCapacity - Estimate(ctx, NextSuccessor.node).totalAllocatedEst)

\* the same for the catalogs with at most one business
EstimatorWithOneBusiness ==
    (AtFeasibleTransition /\ ctx.nBusinesses <= 1) =>
        /\ Estimate(ctx, NextSuccessor.node).totalAllocatedEst <= NextSuccessor.node.totalHouseCapacity
        /\ NextSuccessor.key[1] = Min(ctx.maxResidents,
                                      NextSuccessor.node.totalHouseCapacity - Estimate(ctx, NextSuccessor.node).totalAllocatedEst)

\* C29: for N >= 2 every sub-solve of optimizeMultipleBlocks runs with
\* requiredMask = 0 and returns a result, and the call returns a result with
\* exactly N blocks numbered 1..N in order, never null, whether or not the
\* reserved mandatory variants fit in the last block.
C29_MultiBlockAlwaysReturns ==
    (entry = "multi" /\ numBlocks >= 2) =>
        /\ pc \in {"dp", "ret"} => ctx.requiredMask = 0
        /\ pc = "ret" => result.kind = "result"
        /\ \A k \in 1..Len(blockResults) : blockResults[k].blockNumber = k
        /\ pc = "done" =>
              /\ ret.kind = "multi"
              /\ Len(ret.blocks) = numBlocks
              /\ \A k \in 1..Len(ret.blocks) : ret.blocks[k].blockNumber = k

\* a call with three blocks or more has returned for a catalog whose reserved
\* mandatory variants are larger than the block
C29_Witness ==
    /\ Returned /\ entry = "multi" /\ numBlocks >= 3
    /\ mandatoryMiscBuildings(defs) # <<>>
    /\ reservedSize(defs) > sizeLimit
    /\ ret.kind = "multi" /\ Len(ret.blocks) = numBlocks

\* exactly one of result and error is set
ExactlyOneSet == (resultState # Null) # (error # Null)

\* a run of runOptimizer starts in this step
RunStarts == uiPc # "fetch" /\ uiPc' = "fetch"

\* C30: after runOptimizer is invoked isLoading eventually becomes false with
\* exactly one of result and error set, whether the fetch fails or
\* optimizeMultipleBlocks returns a result, returns null or throws; while
\* isLoading is true both result and error are null and no second run starts.
C30_UiRunSettles ==
    /\ [](isLoading => (resultState = Null /\ error = Null))
    /\ [][RunStarts => ~isLoading]_vars
    /\ (isLoading ~> (~isLoading /\ ExactlyOneSet))

\* the same without the case of optimizeMultipleBlocks throwing
UiRunSettlesUnlessThrown ==
    /\ [](isLoading => (resultState = Null /\ error = Null))
    /\ [][RunStarts => ~isLoading]_vars
    /\ (isLoading ~> ((~isLoading /\ ExactlyOneSet) \/ uiPc = "threw"))

\* runs have settled with a result, with the message of a null and with the
\* message of a failed fetch
UiResultShown == ~isLoading /\ resultState # Null /\ Len(resultState.blocks) >= 2

UiNoSolutionShown == ~isLoading /\ error = Message("No valid solution found")

UiFetchFailureShown == ~isLoading /\ error = Message("Optimizer failed")

====
